---- MODULE Spec2Model ----
(***************************************************************************)
(* Model of the publication orchestrator of evo_omni_publisher_engine:     *)
(* services/publisher_manager.py (process_single_post), the job and        *)
(* credential tables of database/models.py, the scheduling API of          *)
(* api/routes_publish.py, the OAuth callback of api/routes_oauth.py that   *)
(* stores credential records, and the dispatch of database/listener.py.    *)
(*                                                                         *)
(* Strings that the code inspects character by character (platform names,  *)
(* which it lower-cases) are sequences of one-character strings.           *)
(***************************************************************************)
EXTENDS Integers, Sequences, FiniteSets, TLC

\* ------------------------------------------------------------------ bounds

\* Longest platform list a scheduled job carries in the model.
MaxPlatforms == 2

\* ------------------------------------------------------- strings, platforms

youtube == <<"y", "o", "u", "t", "u", "b", "e">>

tiktok == <<"t", "i", "k", "t", "o", "k">>

instagram == <<"i", "n", "s", "t", "a", "g", "r", "a", "m">>

facebook == <<"f", "a", "c", "e", "b", "o", "o", "k">>

\* The platform string the web-direct endpoint inserts: '["Tiktok"]'.
Tiktok == <<"T", "i", "k", "t", "o", "k">>

\* A platform string for which process_single_post has no branch.
vimeo == <<"v", "i", "m", "e", "o">>

\* The letters of the ASCII alphabet, lower and upper case.
LowerCase == <<"a", "b", "c", "d", "e", "f", "g", "h", "i", "j", "k", "l", "m",
               "n", "o", "p", "q", "r", "s", "t", "u", "v", "w", "x", "y", "z">>

UpperCase == <<"A", "B", "C", "D", "E", "F", "G", "H", "I", "J", "K", "L", "M",
               "N", "O", "P", "Q", "R", "S", "T", "U", "V", "W", "X", "Y", "Z">>

\* str.upper() on one character.
UpperChar(c) ==
    IF \E i \in DOMAIN LowerCase : LowerCase[i] = c
    THEN UpperCase[CHOOSE i \in DOMAIN LowerCase : LowerCase[i] = c]
    ELSE c

\* str.lower() on one character.
LowerChar(c) ==
    IF \E i \in DOMAIN UpperCase : UpperCase[i] = c
    THEN LowerCase[CHOOSE i \in DOMAIN UpperCase : UpperCase[i] = c]
    ELSE c

\* A dispatch that compares the name as it was stored.
lowerNot(s) == s

\* platform_raw.lower()
lower(s) == [i \in DOMAIN s |-> LowerChar(s[i])]

\* Platform strings a scheduled job may carry (List[str], any strings).
RawPlatforms == {youtube, Tiktok, instagram, facebook, vimeo}

\* The platforms process_single_post has a branch for.
Supported == {youtube, tiktok, instagram, facebook}

\* Meta platforms share the credential stored under the 'instagram' key.
lookup_platform(platform) ==
    IF platform \in {instagram, facebook} THEN instagram ELSE platform

\* All sequences over S of length at most n.
RECURSIVE SeqsUpTo(_, _)
SeqsUpTo(S, n) ==
    IF n = 0 THEN {<<>>}
    ELSE LET shorter == SeqsUpTo(S, n - 1)
         IN  shorter \cup {Append(s, x) : s \in {t \in shorter : Len(t) = n - 1}, x \in S}

PlatformLists == SeqsUpTo(RawPlatforms, MaxPlatforms)

\* ------------------------------------------------------------ data model

Clients == {1}

\* No row / None.
None == "None"

\* token_data as the OAuth callback builds it.  Only the fields the
\* orchestrator reads are kept: instagram_account_id and available_accounts
\* (each pairing: ig_id, page_id).  A bundle without those keys reads None / [].
PlainBundle == [instagram_account_id |-> None, available_accounts |-> <<>>]

MetaOnePage ==
    [instagram_account_id |-> "ig1",
     available_accounts |-> <<[ig_id |-> "ig1", page_id |-> "p1"]>>]

MetaTwoPages ==
    [instagram_account_id |-> "ig2",
     available_accounts |-> <<[ig_id |-> "ig1", page_id |-> "p1"],
                              [ig_id |-> "ig2", page_id |-> "p2"]>>]

\* Bundles the callback can store under a platform key: the instagram branch
\* discovers zero or more pairings and selects one of them (here none, or two
\* with the second selected); every other branch stores a bundle without
\* pairings (an unknown platform stores {}).
CallbackBundles(platform) ==
    IF platform = instagram
    THEN {PlainBundle, MetaTwoPages}
    ELSE {PlainBundle}

\* Platform keys a credential row may be stored under in the model.
CredKeys == {youtube, tiktok, instagram, vimeo}

\* What .first() returns when no row matches (None), as a row.
NoRow == [client_id |-> 0, platform |-> <<>>, token_data |-> PlainBundle]

\* A staging path that does not depend on the job.
JobPathShared(id) == <<"temp_media", "video_job", 0>>

\* The job-scoped path os.path.join("temp_media", f"video_job_{id}.mp4").
JobPath(id) == <<"temp_media", "video_job", id>>

\* local_video_path = None
NoPath == <<>>

\* ----------------------------------------------------------------- state

Workers == {"w1", "w2"}

\* The thread of database/listener.py: it runs process_single_post calls
\* one after another.
Listener == "w1"

VARIABLES
    posts,               \* scheduled_posts: sequence of rows, id = index
    social_credentials,  \* social_credentials: set of rows (client_id, platform, token_data)
    files,               \* the paths that exist on the local disk
    pc,                  \* per call: position in process_single_post
    post_id,             \* per call: the argument
    local_video_path,    \* per call: NoPath, or the job-scoped path
    overall_success,     \* per call
    idx,                 \* per call: position of the for loop in post.platforms
    creds,               \* per call: the record the last lookup returned
    hist,                \* per call: what the call has done so far
    sweep,               \* process_pending_posts: position, snapshot, loop state
    yt,                  \* publishers/youtube.py: one call of upload_video
    tk,                  \* publishers/tiktok.py: one call of upload_video_to_tiktok
    ig,                  \* publishers/instagram.py: one call of publish_reel
    fb,                  \* publishers/facebook.py: one call of publish_reel
    ph,                  \* publishers/tiktok.py: one call of upload_photos_to_tiktok
    rf,                  \* publishers/tiktok.py: calls of refresh_tiktok_token, one per pass
    ls                   \* database/listener.py: the loop of start_listening

vars == <<posts, social_credentials, files, pc, post_id, local_video_path,
          overall_success, idx, creds, hist, sweep, yt, tk, ig, fb, ph, rf, ls>>

store == <<posts, social_credentials, files>>

locals == <<post_id, local_video_path, overall_success, idx, creds>>

\* The driver calls looked at step by step.
drivers == <<yt, tk, ig, fb, ph, rf>>

\* What process_single_post and its callers never touch.
others == <<sweep, drivers, ls>>

\* What the sweep and the drivers called on their own never touch.
calls == <<pc, locals, hist>>

\* No call of upload_video in progress.
YtIdle == [pc |-> "idle", video_path |-> NoPath, submitted |-> FALSE,
           video_id |-> None, ret |-> None]

\* A TikTok token bundle: what the token endpoint returns and the callback
\* stores.
TikTokBundle(access, refresh) == [access_token |-> access, refresh_token |-> refresh]

\* refresh_tiktok_token returned None.
NoTokens == TikTokBundle(None, None)

\* source_info of the init payload, before it is built.
NoPayload == [video_size |-> 0, chunk_size |-> 0, total_chunk_count |-> 0]

\* No call of upload_video_to_tiktok in progress.
TkIdle == [pc |-> "idle", video_path |-> NoPath, token_data |-> NoTokens,
           client_id |-> 0, db |-> FALSE, file_size |-> 0, total_chunk_count |-> 0,
           payload |-> NoPayload,
           inits |-> <<>>, responses |-> <<>>, refreshes |-> 0, new_tokens |-> NoTokens, upload_url |-> FALSE,
           i |-> 0, puts |-> <<>>, ret |-> None]

\* No call of publish_reel in progress.
IgIdle == [pc |-> "idle", container_id |-> None, i |-> 0, polls |-> 0,
           polled |-> None, last |-> None, wait |-> None, published |-> None,
           publish |-> None, ret |-> None]

\* No call of upload_photos_to_tiktok in progress.
PhIdle == [pc |-> "idle", photo_urls |-> <<>>, token_data |-> NoTokens,
           client_id |-> 0, db |-> FALSE, safe_photo_urls |-> <<>>,
           inits |-> <<>>, sent |-> <<>>, responses |-> <<>>, refreshes |-> 0,
           new_tokens |-> NoTokens, ret |-> None]

\* No call of refresh_tiktok_token in progress, no bundle issued yet.
RfIdle == [issued |-> 0,
           pass |-> [p \in Workers |-> [pc |-> "idle", new_data |-> NoTokens]]]

\* A notification payload that json.loads (or payload.get) cannot handle.
InvalidPayload == [kind |-> "invalid", status |-> None, post_id |-> 0]

\* No notification in hand.
NoNotify == [seq |-> 0, payload |-> InvalidPayload]

\* The listener connected and waiting, nothing received yet.
LsIdle == [pc |-> "wait", arrived |-> <<>>, notifies |-> <<>>, notify |-> NoNotify,
           taken |-> <<>>, dispatched |-> <<>>, running |-> {}, errors |-> <<>>]

\* No call of FacebookPublisher.publish_reel in progress.
FbIdle == [pc |-> "idle", target_id |-> None, reqs |-> <<>>, answer |-> None,
           attempt |-> 0, last |-> None, is_ready |-> FALSE, ret |-> None]

\* The sweep before its first run and between runs.
SweepIdle == [pc |-> "idle", pending |-> <<>>, cur |-> 0, pidx |-> 0,
              has_errors |-> FALSE, marked |-> {}, raised |-> FALSE]

\* What a call has done: blob fetches, credential lookups (keys), driver
\* invocations, per-entry outcomes, committed status writes, the status the
\* job had when the call loaded it (None without a row), and whether an
\* exception reached the top-level handler.
NoHist ==
    [fetches |-> 0, blob |-> "none", lookups |-> <<>>, calls |-> <<>>,
     log |-> <<>>, writes |-> <<>>, entry |-> None, raised |-> FALSE]

\* Ids a trigger may pass: 0 is an id that never has a row, 1 and 2 are the
\* ids the table hands out.
PostIds == {0, 1, 2}

\* Ids of the rows the scheduling API creates in Spec (one job; the
\* specification of overlapping calls starts with two).
ApiIds == {1}

Exists(id) == id \in 1 .. Len(posts)

Init ==
    /\ posts = <<>>
    /\ social_credentials = {}
    /\ files = {}
    /\ pc = [w \in Workers |-> "idle"]
    /\ post_id = [w \in Workers |-> 0]
    /\ local_video_path = [w \in Workers |-> NoPath]
    /\ overall_success = [w \in Workers |-> TRUE]
    /\ idx = [w \in Workers |-> 0]
    /\ creds = [w \in Workers |-> NoRow]
    /\ hist = [w \in Workers |-> NoHist]
    /\ sweep = SweepIdle
    /\ yt = YtIdle
    /\ tk = TkIdle
    /\ ig = IgIdle
    /\ fb = FbIdle
    /\ ph = PhIdle
    /\ rf = RfIdle
    /\ ls = LsIdle

\* ------------------------------------------------------ external writers

\* POST /api/v1/publish/: a new row, status "pending"; the platform list is
\* whatever List[str] the client sent (no minimum length is imposed).
schedule_new_post(c, plats) ==
    /\ Len(posts) + 1 \in ApiIds
    /\ posts' = Append(posts, [client_id |-> c, platforms |-> plats, status |-> "pending"])
    /\ UNCHANGED <<social_credentials, files, pc, locals, hist, others>>

\* GET /api/v1/oauth/callback/{platform}: insert or overwrite the credential
\* row of (client_id, platform).
callback(platform, c, token_data) ==
    LET row == [client_id |-> c, platform |-> platform, token_data |-> token_data]
        existing == {r \in social_credentials : r.client_id = c /\ r.platform = platform}
    IN
    /\ row \notin social_credentials
    /\ social_credentials' = (social_credentials \ existing) \cup {row}
    /\ UNCHANGED <<posts, files, pc, locals, hist, others>>

\* --------------------------------------------------- process_single_post

\* db.query(SocialCredential).filter_by(client_id, platform).first()
FirstCredential(c, key) ==
    LET rows == {r \in social_credentials : r.client_id = c /\ r.platform = key}
    IN  IF rows = {} THEN NoRow ELSE CHOOSE r \in rows : TRUE

\* A resolution that takes the page of the first pairing, whichever account
\* is active.
LinkedPageFirst(token_data) ==
    IF token_data.available_accounts = <<>> THEN None
    ELSE token_data.available_accounts[1].page_id

\* The page id of the first pairing whose ig_id is the active Instagram
\* account, or None.
LinkedPage(token_data) ==
    LET accounts == token_data.available_accounts
        hits == {i \in DOMAIN accounts : accounts[i].ig_id = token_data.instagram_account_id}
    IN  IF hits = {} THEN None
        ELSE accounts[CHOOSE i \in hits : \A k \in hits : i <= k].page_id

\* What a driver call can end with: it returned True, returned False, or an
\* exception left it.
Results == {"true", "false", "raise"}

\* A trigger calls process_single_post(id): SessionLocal(), local_video_path = None.
Invoke(w, id) ==
    /\ pc[w] \in {"idle", "done"}
    /\ pc' = [pc EXCEPT ![w] = "query"]
    /\ post_id' = [post_id EXCEPT ![w] = id]
    /\ local_video_path' = [local_video_path EXCEPT ![w] = NoPath]
    /\ overall_success' = [overall_success EXCEPT ![w] = TRUE]
    /\ idx' = [idx EXCEPT ![w] = 0]
    /\ creds' = [creds EXCEPT ![w] = NoRow]
    /\ hist' = [hist EXCEPT ![w] = NoHist]
    /\ UNCHANGED <<store, others>>

\* The status of row id, None without a row.
StatusOf(id) == IF Exists(id) THEN posts[id].status ELSE None

\* A variant that tests only that the row exists.
ShouldProcessAnyStatus(post_exists, status) == post_exists

\* The negation of the early-return test "not post or post.status != 'pending'".
ShouldProcess(post_exists, status) == post_exists /\ status = "pending"

\* A variant with the status word of services/scheduler.py.
FetchFailedStatusError == "error"

\* The status step 3 writes when the blob fetch fails.
FetchFailedStatus == "failed"

\* A variant that starts the aggregation from False.
InitialOverallFalse == FALSE

\* overall_success before the loop.
InitialOverall == TRUE

\* 1. Retrieve the post; return unless it exists and is pending.
\* 2. Resolve the job-scoped path temp_media/video_job_<id>.mp4.
QueryPost(w) ==
    /\ pc[w] = "query"
    /\ LET status == StatusOf(post_id[w]) IN
       \/ /\ pc' = [pc EXCEPT ![w] = "except"]      \* the query raises
          /\ hist' = [hist EXCEPT ![w].raised = TRUE]
          /\ UNCHANGED local_video_path
       \/ /\ ~ShouldProcess(Exists(post_id[w]), status)
          /\ pc' = [pc EXCEPT ![w] = "finally"]
          /\ hist' = [hist EXCEPT ![w].entry = status]
          /\ UNCHANGED local_video_path
       \/ /\ ShouldProcess(Exists(post_id[w]), status)
          /\ local_video_path' = [local_video_path EXCEPT ![w] = JobPath(post_id[w])]
          /\ pc' = [pc EXCEPT ![w] = "download"]
          /\ hist' = [hist EXCEPT ![w].entry = status]
    /\ UNCHANGED <<store, post_id, overall_success, idx, creds, others>>

\* 3. download_video: True with the file written; False with the file
\* untouched or left partly written.  On False: status 'failed', commit, return.
Download(w) ==
    /\ pc[w] = "download"
    /\ \/ /\ files' = files \cup {local_video_path[w]}
          /\ overall_success' = [overall_success EXCEPT ![w] = InitialOverall]
          /\ idx' = [idx EXCEPT ![w] = 1]
          /\ pc' = [pc EXCEPT ![w] = "loop"]
          /\ hist' = [hist EXCEPT ![w].fetches = @ + 1, ![w].blob = "ok"]
          /\ UNCHANGED posts
       \/ /\ files' \in {files, files \cup {local_video_path[w]}}
          /\ \/ /\ posts' = [posts EXCEPT ![post_id[w]].status = FetchFailedStatus]
                /\ pc' = [pc EXCEPT ![w] = "finally"]
                /\ hist' = [hist EXCEPT ![w].fetches = @ + 1, ![w].blob = "fail",
                                        ![w].writes = Append(@, FetchFailedStatus)]
             \/ /\ pc' = [pc EXCEPT ![w] = "except"]      \* the commit raises
                /\ hist' = [hist EXCEPT ![w].fetches = @ + 1, ![w].blob = "fail",
                                        ![w].raised = TRUE]
                /\ UNCHANGED posts
          /\ UNCHANGED <<overall_success, idx>>
    /\ UNCHANGED <<social_credentials, post_id, local_video_path, creds, others>>

\* A variant without the check (the sweep of services/scheduler.py goes on
\* with empty tokens).
SkipNever(found) == FALSE

\* "if not creds": the entry is skipped as a failure.
SkipWithoutCredential(found) == found = NoRow

\* A loop that steps over every other entry.
NextEntrySkipping(i) == i + 2

\* for platform_raw in post.platforms: the entry after entry i.
NextEntry(i) == i + 1

\* 4. One pass of the for loop up to the credential check: normalise the
\* entry, look the credential up; without a record the entry fails and the
\* loop continues.  Past the last entry the loop ends.
LoopStep(w) ==
    /\ pc[w] = "loop"
    /\ LET post == posts[post_id[w]] IN
       \/ /\ idx[w] > Len(post.platforms)
          /\ pc' = [pc EXCEPT ![w] = "final"]
          /\ UNCHANGED <<overall_success, idx, creds, hist>>
       \/ /\ idx[w] <= Len(post.platforms)
          /\ LET platform == lower(post.platforms[idx[w]])
                 key == lookup_platform(platform)
                 found == FirstCredential(post.client_id, key)
             IN
             \/ /\ pc' = [pc EXCEPT ![w] = "except"]      \* the lookup raises
                /\ hist' = [hist EXCEPT ![w].lookups = Append(@, key), ![w].raised = TRUE]
                /\ UNCHANGED <<overall_success, idx, creds>>
             \/ /\ SkipWithoutCredential(found)
                /\ overall_success' = [overall_success EXCEPT ![w] = FALSE]
                /\ idx' = [idx EXCEPT ![w] = NextEntry(@)]
                /\ hist' = [hist EXCEPT
                       ![w].lookups = Append(@, key),
                       ![w].log = Append(@, [platform |-> platform, cred |-> FALSE,
                                             result |-> "none"])]
                /\ UNCHANGED <<pc, creds>>
             \/ /\ ~SkipWithoutCredential(found)
                /\ creds' = [creds EXCEPT ![w] = found]
                /\ pc' = [pc EXCEPT ![w] = "driver"]
                /\ hist' = [hist EXCEPT ![w].lookups = Append(@, key)]
                /\ UNCHANGED <<overall_success, idx>>
    /\ UNCHANGED <<store, post_id, local_video_path, others>>

\* The driver the dispatch selects for a normalised platform and the looked-up
\* record: its name and (facebook) the target page, or None when no driver
\* is called (no branch, or no linked page).
Dispatch(platform, token_data) ==
    CASE platform = youtube -> [driver |-> "upload_video", target |-> None]
      [] platform = tiktok -> [driver |-> "upload_video_to_tiktok", target |-> None]
      [] platform = instagram -> [driver |-> "InstagramPublisher", target |-> None]
      [] platform = facebook ->
            IF LinkedPage(token_data) # None
            THEN [driver |-> "FacebookPublisher", target |-> LinkedPage(token_data)]
            ELSE [driver |-> None, target |-> None]
      [] OTHER -> [driver |-> None, target |-> None]

\* A variant in which the last entry decides.
AggregateLastWins(overall, platform_success) == platform_success

\* overall_success after an entry whose platform_success is given.
Aggregate(overall, platform_success) ==
    IF ~platform_success THEN FALSE ELSE overall

\* A variant without the per-platform try/except: a raising driver leaves the loop.
NextAfterDriverUncaught(result) == IF result = "raise" THEN "except" ELSE "loop"

\* Where control goes after the dispatch: "except Exception as platform_err"
\* catches whatever a driver raises, so the pass always reaches the
\* aggregation and the loop goes on.
NextAfterDriver(result) == "loop"

\* A pass that starts with platform_success = True.
InitialPlatformSuccessTrue == TRUE

\* platform_success = False before the dispatch: the value an entry keeps
\* when no branch of the dispatch matches its name.
InitialPlatformSuccess == FALSE

\* BASE_PUBLIC_URL/<filename>: the public address of the job's local copy,
\* served from the temp_media directory.
PublicUrl(id) == <<"BASE_PUBLIC_URL", "video_job", id>>

\* Every driver handed the sweep's temp_videos/video_<id>.mp4.
MediaForSweepPath(platform, path, id) == <<"temp_videos", "video", id>>

\* The media reference a driver is handed: the local path for YouTube and
\* TikTok, the public URL of the same file for Instagram and Facebook.
MediaFor(platform, path, id) ==
    IF platform \in {instagram, facebook} THEN PublicUrl(id) ELSE path

\* What the token endpoint issues on a refresh.
RefreshedBundle == TikTokBundle("a1", "r1")

\* A refresh that stores the new access token next to the old refresh token.
PersistedBundleOldRefresh(new_data, old_data) ==
    TikTokBundle(new_data.access_token, old_data.refresh_token)

\* cred.token_data = new_data
PersistedBundle(new_data, old_data) == new_data

\* A pass in which the YouTube driver, too, writes its refreshed token back.
CredentialsAfterWriteBack(driver, c, refreshed) ==
    LET key == IF driver = "upload_video" THEN youtube ELSE tiktok
        row == FirstCredential(c, key)
    IN  IF driver \in {"upload_video", "upload_video_to_tiktok"} /\ row # NoRow
        THEN (social_credentials \ {row})
                \cup {[row EXCEPT !.token_data = PersistedBundle(RefreshedBundle, @)]}
        ELSE social_credentials

\* The credential table after a driver call: only upload_video_to_tiktok is
\* handed db, and it stores the refreshed bundle in the TikTok record of the
\* job's client when it refreshed its token; upload_video refreshes in
\* memory only, the Meta drivers not at all.
CredentialsAfter(driver, c, refreshed) ==
    LET row == FirstCredential(c, tiktok) IN
    IF driver = "upload_video_to_tiktok" /\ refreshed /\ row # NoRow
    THEN (social_credentials \ {row})
            \cup {[row EXCEPT !.token_data = PersistedBundle(RefreshedBundle, @)]}
    ELSE social_credentials

\* 4 (cont.). The rest of the pass: platform_success = False, the dispatch
\* under try/except, then the aggregation.
DriverStep(w) ==
    /\ pc[w] = "driver"
    /\ LET post == posts[post_id[w]]
           platform == lower(post.platforms[idx[w]])
           d == Dispatch(platform, creds[w].token_data)
       IN
       \E r \in Results, refreshed \in BOOLEAN :
          LET result == IF d.driver = None THEN "none" ELSE r
              platform_success ==
                  IF d.driver # None THEN result = "true"
                  ELSE IF platform = facebook THEN FALSE
                  ELSE InitialPlatformSuccess
          IN
          /\ d.driver = None => r = "false"
          /\ refreshed => (d.driver = "upload_video_to_tiktok" /\ r # "raise")
          /\ social_credentials' = CredentialsAfter(d.driver, post.client_id, refreshed)
          /\ overall_success' = [overall_success EXCEPT ![w] = Aggregate(@, platform_success)]
          /\ hist' = [hist EXCEPT
                 ![w].calls = IF d.driver = None THEN @
                              ELSE Append(@, [entry |-> idx[w], driver |-> d.driver,
                                              target |-> d.target,
                                              media |-> MediaFor(platform,
                                                 local_video_path[w], post_id[w])]),
                 ![w].log = Append(@, [platform |-> platform, cred |-> creds[w] # NoRow,
                                       result |-> result])]
          /\ pc' = [pc EXCEPT ![w] = NextAfterDriver(result)]
    /\ idx' = [idx EXCEPT ![w] = NextEntry(@)]
    /\ UNCHANGED <<posts, files, post_id, local_video_path, creds, others>>

\* The status step 5 assigns.
FinalValue(overall) == IF overall THEN "completed" ELSE "failed"

\* 5. Final status update and commit.
FinalStatus(w) ==
    /\ pc[w] = "final"
    /\ \/ /\ posts' = [posts EXCEPT ![post_id[w]].status = FinalValue(overall_success[w])]
          /\ pc' = [pc EXCEPT ![w] = "finally"]
          /\ hist' = [hist EXCEPT ![w].writes = Append(@, FinalValue(overall_success[w]))]
       \/ /\ pc' = [pc EXCEPT ![w] = "except"]      \* the commit raises
          /\ hist' = [hist EXCEPT ![w].raised = TRUE]
          /\ UNCHANGED posts
    /\ UNCHANGED <<social_credentials, files, locals, others>>

\* except Exception: db.rollback() and a log line; what was committed stays.
Except(w) ==
    /\ pc[w] = "except"
    /\ pc' = [pc EXCEPT ![w] = "finally"]
    /\ UNCHANGED <<store, locals, hist, others>>

\* A variant with the clean-up switched off (as in services/scheduler.py).
ShouldRemoveNever(path, existing) == FALSE

\* "if local_video_path and os.path.exists(local_video_path)"
ShouldRemove(path, existing) == path # NoPath /\ path \in existing

\* 6. finally: remove the local file if the path was set and the file exists.
Finally(w) ==
    /\ pc[w] = "finally"
    /\ files' = IF ShouldRemove(local_video_path[w], files)
                THEN files \ {local_video_path[w]}
                ELSE files
    /\ pc' = [pc EXCEPT ![w] = "done"]
    /\ UNCHANGED <<posts, social_credentials, locals, hist, others>>

\* --------------------------------------------------------- specifications

\* The program as main.py runs it: the API creates jobs and credentials, and
\* the listener thread makes one process_single_post call at a time.
Next ==
    \/ \E c \in Clients, plats \in PlatformLists : schedule_new_post(c, plats)
    \/ \E p \in CredKeys, c \in Clients :
          \E t \in CallbackBundles(p) : callback(p, c, t)
    \/ \E id \in PostIds : Invoke(Listener, id)
    \/ QueryPost(Listener)
    \/ Download(Listener)
    \/ LoopStep(Listener)
    \/ DriverStep(Listener)
    \/ FinalStatus(Listener)
    \/ Except(Listener)
    \/ Finally(Listener)

Spec == Init /\ [][Next]_vars

\* Overlapping calls: two triggers (two listener processes on the same
\* channel, or the listener and a second caller) run process_single_post at
\* the same time.  The store starts with two pending jobs of client 1 and the
\* credentials of youtube and instagram; tiktok has none.
InitConc ==
    /\ posts = <<[client_id |-> 1, platforms |-> <<youtube, facebook>>, status |-> "pending"],
                 [client_id |-> 1, platforms |-> <<Tiktok>>, status |-> "pending"]>>
    /\ social_credentials =
          {[client_id |-> 1, platform |-> youtube, token_data |-> PlainBundle],
           [client_id |-> 1, platform |-> instagram, token_data |-> MetaOnePage]}
    /\ files = {}
    /\ pc = [w \in Workers |-> "idle"]
    /\ post_id = [w \in Workers |-> 0]
    /\ local_video_path = [w \in Workers |-> NoPath]
    /\ overall_success = [w \in Workers |-> TRUE]
    /\ idx = [w \in Workers |-> 0]
    /\ creds = [w \in Workers |-> NoRow]
    /\ hist = [w \in Workers |-> NoHist]
    /\ sweep = SweepIdle
    /\ yt = YtIdle
    /\ tk = TkIdle
    /\ ig = IgIdle
    /\ fb = FbIdle
    /\ ph = PhIdle
    /\ rf = RfIdle
    /\ ls = LsIdle

NextConc ==
    \E w \in Workers :
       \/ \E id \in PostIds : Invoke(w, id)
       \/ QueryPost(w)
       \/ Download(w)
       \/ LoopStep(w)
       \/ DriverStep(w)
       \/ FinalStatus(w)
       \/ Except(w)
       \/ Finally(w)

SpecConc == InitConc /\ [][NextConc]_vars

\* ------------------------------------------------------------ properties

\* ------------------------------------------------- routing of one entry
\* process_single_post on a job with a single entry, the name written in
\* any mix of upper and lower case.

\* Every spelling of a lower-case name in upper and lower case letters.
RECURSIVE CaseVariants(_)
CaseVariants(name) ==
    IF name = <<>> THEN {<<>>}
    ELSE LET last == name[Len(name)] IN
         {Append(r, c) : r \in CaseVariants(SubSeq(name, 1, Len(name) - 1)),
                         c \in {last, UpperChar(last)}}

RoutingNames == UNION {CaseVariants(name) : name \in Supported}

\* One pending job of client 1 with one entry; client 1 has a YouTube, a
\* TikTok and an Instagram record.
InitRouting ==
    /\ \E raw \in RoutingNames :
          posts = <<[client_id |-> 1, platforms |-> <<raw>>, status |-> "pending"]>>
    /\ social_credentials =
          {[client_id |-> 1, platform |-> youtube, token_data |-> PlainBundle],
           [client_id |-> 1, platform |-> tiktok, token_data |-> PlainBundle],
           [client_id |-> 1, platform |-> instagram, token_data |-> MetaOnePage]}
    /\ files = {}
    /\ pc = [w \in Workers |-> "idle"]
    /\ post_id = [w \in Workers |-> 0]
    /\ local_video_path = [w \in Workers |-> NoPath]
    /\ overall_success = [w \in Workers |-> TRUE]
    /\ idx = [w \in Workers |-> 0]
    /\ creds = [w \in Workers |-> NoRow]
    /\ hist = [w \in Workers |-> NoHist]
    /\ sweep = SweepIdle
    /\ yt = YtIdle
    /\ tk = TkIdle
    /\ ig = IgIdle
    /\ fb = FbIdle
    /\ ph = PhIdle
    /\ rf = RfIdle
    /\ ls = LsIdle

NextRouting ==
    \/ \E id \in PostIds : Invoke(Listener, id)
    \/ QueryPost(Listener)
    \/ Download(Listener)
    \/ LoopStep(Listener)
    \/ DriverStep(Listener)
    \/ FinalStatus(Listener)
    \/ Except(Listener)
    \/ Finally(Listener)

SpecRouting == InitRouting /\ [][NextRouting]_vars

\* The same serial listener over a credential table of two tenants: client 1
\* with a YouTube, a TikTok and a Meta record, client 2 with a YouTube and a
\* TikTok record.
TenantRecords ==
    {[client_id |-> 1, platform |-> youtube, token_data |-> PlainBundle],
     [client_id |-> 1, platform |-> tiktok, token_data |-> TikTokBundle("a0", "r0")],
     [client_id |-> 1, platform |-> instagram, token_data |-> MetaOnePage],
     [client_id |-> 2, platform |-> youtube, token_data |-> PlainBundle],
     [client_id |-> 2, platform |-> tiktok, token_data |-> TikTokBundle("a0", "r0")]}

\* One pending job of each tenant.
InitCreds ==
    /\ \E platforms \in PlatformLists :
          posts = <<[client_id |-> 1, platforms |-> platforms, status |-> "pending"],
                    [client_id |-> 2, platforms |-> <<Tiktok>>, status |-> "pending"]>>
    /\ social_credentials = TenantRecords
    /\ files = {}
    /\ pc = [w \in Workers |-> "idle"]
    /\ post_id = [w \in Workers |-> 0]
    /\ local_video_path = [w \in Workers |-> NoPath]
    /\ overall_success = [w \in Workers |-> TRUE]
    /\ idx = [w \in Workers |-> 0]
    /\ creds = [w \in Workers |-> NoRow]
    /\ hist = [w \in Workers |-> NoHist]
    /\ sweep = SweepIdle
    /\ yt = YtIdle
    /\ tk = TkIdle
    /\ ig = IgIdle
    /\ fb = FbIdle
    /\ ph = PhIdle
    /\ rf = RfIdle
    /\ ls = LsIdle

SpecCreds == InitCreds /\ [][NextRouting]_vars

\* ------------------------------------------------ process_pending_posts
\* services/scheduler.py: the periodic sweep (interval job, one run at a time).

\* TEMP_DIR/video_<id>.mp4
SweepPath(id) == <<"temp_videos", "video", id>>

\* The ids of a set of rows in the order the query returns them.
IdsInOrder(S) ==
    CHOOSE s \in [1 .. Cardinality(S) -> S] :
       \A i, k \in 1 .. Cardinality(S) : i < k => s[i] < s[k]

\* The status the sweep writes when the blob fetch fails.
SweepFetchFailedStatus == "error"

\* The status the sweep writes after the platform loop.
SweepFinalValue(has_errors) == IF has_errors THEN "error" ELSE "completed"

\* The sweep's position after it is done with the current post.
SweepAdvance(sw) ==
    IF sw.cur < Len(sw.pending)
    THEN [sw EXCEPT !.pc = "mark", !.cur = @ + 1, !.pidx = 0, !.has_errors = FALSE]
    ELSE [sw EXCEPT !.pc = "end"]

\* 1. Query the pending posts whose time has come; return if there is none.
SweepQuery ==
    /\ sweep.pc = "idle"
    /\ \/ sweep' = [SweepIdle EXCEPT !.pc = "end", !.raised = TRUE]   \* the query raises
       \/ \E due \in SUBSET {i \in DOMAIN posts : posts[i].status = "pending"} :
             sweep' = IF due = {} THEN [SweepIdle EXCEPT !.pc = "end"]
                      ELSE [SweepIdle EXCEPT !.pc = "mark", !.pending = IdsInOrder(due),
                                             !.cur = 1]
    /\ UNCHANGED <<store, calls, drivers, ls>>

\* post.status = "processing"; db.commit()
SweepMark ==
    /\ sweep.pc = "mark"
    /\ LET id == sweep.pending[sweep.cur] IN
       \/ /\ posts' = [posts EXCEPT ![id].status = "processing"]
          /\ sweep' = [sweep EXCEPT !.pc = "download", !.marked = @ \cup {id}]
       \/ /\ sweep' = [sweep EXCEPT !.pc = "end", !.raised = TRUE]   \* the commit raises
          /\ UNCHANGED posts
    /\ UNCHANGED <<social_credentials, files, calls, drivers, ls>>

\* 2. download_video to the sweep's own folder; on False: status "error",
\* commit, next post.
SweepDownload ==
    /\ sweep.pc = "download"
    /\ LET id == sweep.pending[sweep.cur] IN
       \/ /\ files' = files \cup {SweepPath(id)}
          /\ sweep' = [sweep EXCEPT !.pc = "platforms", !.pidx = 1, !.has_errors = FALSE]
          /\ UNCHANGED posts
       \/ /\ files' \in {files, files \cup {SweepPath(id)}}
          /\ \/ /\ posts' = [posts EXCEPT ![id].status = SweepFetchFailedStatus]
                /\ sweep' = SweepAdvance(sweep)
             \/ /\ sweep' = [sweep EXCEPT !.pc = "end", !.raised = TRUE]
                /\ UNCHANGED posts
    /\ UNCHANGED <<social_credentials, calls, drivers, ls>>

\* 3. One pass of the platform loop: the name is compared as stored, the
\* credential looked up under it; youtube.upload_video returns a bool;
\* tiktok.upload_tiktok is not a function of publishers/tiktok.py, so the
\* call raises AttributeError into the sweep's handler; other names do nothing.
SweepPlatform ==
    /\ sweep.pc = "platforms"
    /\ sweep.pidx <= Len(posts[sweep.pending[sweep.cur]].platforms)
    /\ LET platform == posts[sweep.pending[sweep.cur]].platforms[sweep.pidx] IN
       \/ sweep' = [sweep EXCEPT !.pc = "end", !.raised = TRUE]       \* the lookup raises
       \/ /\ platform = youtube
          /\ \E ok \in BOOLEAN :
                sweep' = [sweep EXCEPT !.pidx = @ + 1, !.has_errors = @ \/ ~ok]
       \/ /\ platform = tiktok
          /\ sweep' = [sweep EXCEPT !.pc = "end", !.raised = TRUE]
       \/ /\ platform \notin {youtube, tiktok}
          /\ sweep' = [sweep EXCEPT !.pidx = @ + 1]
    /\ UNCHANGED <<store, calls, drivers, ls>>

\* 4. Final status (the cleanup call is commented out) and commit.
SweepFinal ==
    /\ sweep.pc = "platforms"
    /\ LET id == sweep.pending[sweep.cur] IN
       /\ sweep.pidx > Len(posts[id].platforms)
       /\ \/ /\ posts' = [posts EXCEPT ![id].status = SweepFinalValue(sweep.has_errors)]
             /\ sweep' = SweepAdvance(sweep)
          \/ /\ sweep' = [sweep EXCEPT !.pc = "end", !.raised = TRUE]
             /\ UNCHANGED posts
    /\ UNCHANGED <<social_credentials, files, calls, drivers, ls>>

\* except: log; finally: db.close().  The run is over.
SweepEnd ==
    /\ sweep.pc = "end"
    /\ sweep' = [sweep EXCEPT !.pc = "idle"]
    /\ UNCHANGED <<store, calls, drivers, ls>>

\* The platform lists of the second job of the sweep's store.
SweepSecondLists == {<<>>, <<tiktok>>, <<youtube>>}

\* A store with two pending jobs, the YouTube credential present or not, and
\* no publication in progress.
InitSweep ==
    /\ \E p1 \in PlatformLists, p2 \in SweepSecondLists :
          posts = <<[client_id |-> 1, platforms |-> p1, status |-> "pending"],
                    [client_id |-> 1, platforms |-> p2, status |-> "pending"]>>
    /\ social_credentials \in
          {{}, {[client_id |-> 1, platform |-> youtube, token_data |-> PlainBundle]}}
    /\ files = {}
    /\ pc = [w \in Workers |-> "idle"]
    /\ post_id = [w \in Workers |-> 0]
    /\ local_video_path = [w \in Workers |-> NoPath]
    /\ overall_success = [w \in Workers |-> TRUE]
    /\ idx = [w \in Workers |-> 0]
    /\ creds = [w \in Workers |-> NoRow]
    /\ hist = [w \in Workers |-> NoHist]
    /\ sweep = SweepIdle
    /\ yt = YtIdle
    /\ tk = TkIdle
    /\ ig = IgIdle
    /\ fb = FbIdle
    /\ ph = PhIdle
    /\ rf = RfIdle
    /\ ls = LsIdle

NextSweep ==
    \/ SweepQuery
    \/ SweepMark
    \/ SweepDownload
    \/ SweepPlatform
    \/ SweepFinal
    \/ SweepEnd

SpecSweep == InitSweep /\ [][NextSweep]_vars

\* ------------------------------------------------------ the drivers
\* One driver call at a time, as the platform loop makes them, on a media
\* file that is present or missing.

\* No driver call is in progress.
DriversIdle ==
    yt.pc = "idle" /\ tk.pc = "idle" /\ ig.pc = "idle" /\ fb.pc = "idle" /\ ph.pc = "idle"

\* The id of the response upload_video builds for itself.
SimulatedId == "SIMULATED_VIDEO_ID_999"

\* The return value of a finished call, as a string.
Bool(b) == IF b THEN "true" ELSE "false"

\* A driver without the handler: the exception leaves the call.
OnExceptionPropagates == "raise"

\* "except Exception as e: ... return False", the last clause of every driver.
OnException == Bool(FALSE)

\* upload_video(video_path, title, description, token_data)
YtCall(path) ==
    /\ DriversIdle
    /\ yt' = [YtIdle EXCEPT !.pc = "credentials", !.video_path = path]
    /\ UNCHANGED <<store, calls, sweep, tk, ig, fb, ph, rf, ls>>

\* 1-2. Credentials(...); if credentials.expired: credentials.refresh(...).
\* Either may raise; the outer handler returns False.
YtCredentials ==
    /\ yt.pc = "credentials"
    /\ \/ yt' = [yt EXCEPT !.pc = "build"]
       \/ yt' = [yt EXCEPT !.pc = "done", !.ret = OnException]
    /\ UNCHANGED <<store, calls, sweep, tk, ig, fb, ph, rf, ls>>

\* 3-4. build("youtube", "v3", ...) and the metadata body.
YtBuild ==
    /\ yt.pc = "build"
    /\ \/ yt' = [yt EXCEPT !.pc = "media"]
       \/ yt' = [yt EXCEPT !.pc = "done", !.ret = OnException]
    /\ UNCHANGED <<store, calls, sweep, tk, ig, fb, ph, rf, ls>>

\* 5. MediaFileUpload(video_path, ...): opens the file, raises if it is missing.
YtMedia ==
    /\ yt.pc = "media"
    /\ yt' = IF yt.video_path \in files
             THEN [yt EXCEPT !.pc = "respond"]
             ELSE [yt EXCEPT !.pc = "done", !.ret = OnException]
    /\ UNCHANGED <<store, calls, sweep, tk, ig, fb, ph, rf, ls>>

\* The videos().insert(...) request and its execute() are commented out:
\* nothing is sent, response = {'id': 'SIMULATED_VIDEO_ID_999'}, return True.
YtRespond ==
    /\ yt.pc = "respond"
    /\ yt' = [yt EXCEPT !.pc = "done", !.video_id = SimulatedId, !.ret = Bool(TRUE)]
    /\ UNCHANGED <<store, calls, sweep, tk, ig, fb, ph, rf, ls>>

\* The caller takes the return value.
YtReturn ==
    /\ yt.pc = "done"
    /\ yt' = YtIdle
    /\ UNCHANGED <<store, calls, sweep, tk, ig, fb, ph, rf, ls>>

\* ---- publishers/tiktok.py

\* The largest number of chunks of the files looked at.
MaxChunks == 3

CHUNK_SIZE == 20 * 1024 * 1024

\* File sizes at and around the chunk boundaries, the empty file included.
FileSizes ==
    {0, 1} \cup {k * CHUNK_SIZE + d : k \in 1 .. MaxChunks, d \in {-1, 0}}
           \cup {k * CHUNK_SIZE + 1 : k \in 1 .. MaxChunks - 1}

\* math.ceil(file_size / CHUNK_SIZE)
Ceil(n, d) == IF n % d = 0 THEN n \div d ELSE n \div d + 1

ChunkStart(i) == i * CHUNK_SIZE

\* A chunk that always ends one chunk size further.
ChunkEndUnclamped(start, file_size) == start + CHUNK_SIZE - 1

\* end = min(start + CHUNK_SIZE - 1, file_size - 1)
ChunkEnd(start, file_size) ==
    IF start + CHUNK_SIZE - 1 <= file_size - 1 THEN start + CHUNK_SIZE - 1
    ELSE file_size - 1

\* len(f.read(CHUNK_SIZE)) at offset start of a file of file_size bytes.
ChunkLength(start, file_size) ==
    IF file_size - start >= CHUNK_SIZE THEN CHUNK_SIZE ELSE file_size - start

\* The bundles a call is handed: without an access token, the stored one,
\* a refreshed one.
TikTokBundles == {TikTokBundle(None, "r0"), TikTokBundle("a0", "r0"),
                  TikTokBundle("a1", "r1")}

\* What the init endpoint can answer: a body with data.upload_url, a body
\* whose error code is access_token_invalid, any other body without an
\* upload URL; or the request (or its json()) raises.
InitResponses == {"upload_url", "access_token_invalid", "error", "raise"}

\* A driver that asks for a refresh after every access_token_invalid.
AfterInitAlwaysRefresh(response, retried) ==
    IF response = "access_token_invalid" THEN "refresh"
    ELSE IF response = "upload_url" THEN "chunks"
    ELSE "fail"

\* Where the call goes after an init response: the refresh check is made on
\* the first response only (lines 94-103), the upload-URL check on the last
\* one (lines 105-107).
AfterInit(response, retried) ==
    IF response = "access_token_invalid" /\ ~retried THEN "refresh"
    ELSE IF response = "upload_url" THEN "chunks"
    ELSE "fail"

\* A driver that retries the init whatever the refresh returned.
RetryAlways(new_tokens) == TRUE

\* if new_tokens: retry the init; else: return False
RetryAfterRefresh(new_tokens) == new_tokens # NoTokens

\* The statuses a chunk PUT can come back with; NoResponse when the request
\* raises.
NoResponse == 0

PutCodes == {200, 201, 206, 400, NoResponse}

\* A driver that goes on after any response.
AcceptedAny(code) == code # NoResponse

\* put_response.status_code in [200, 201, 206]
Accepted(code) == code \in {200, 201, 206}

\* upload_video_to_tiktok(video_path, title, token_data, client_id, db):
\* without an access token the call returns False at once.
TkCall(path, token_data, c, db) ==
    /\ DriversIdle
    /\ tk' = IF token_data.access_token = None
             THEN [TkIdle EXCEPT !.pc = "done", !.video_path = path,
                                 !.token_data = token_data, !.client_id = c, !.db = db,
                                 !.ret = Bool(FALSE)]
             ELSE [TkIdle EXCEPT !.pc = "size", !.video_path = path,
                                 !.token_data = token_data, !.client_id = c, !.db = db]
    /\ UNCHANGED <<store, calls, sweep, yt, ig, fb, ph, rf, ls>>

\* An init payload that always declares the fixed chunk size.
PayloadChunkSizeFixed(total_chunk_count, file_size) == CHUNK_SIZE

\* "chunk_size": CHUNK_SIZE if total_chunk_count > 1 else file_size
PayloadChunkSize(total_chunk_count, file_size) ==
    IF total_chunk_count > 1 THEN CHUNK_SIZE ELSE file_size

\* file_size = os.path.getsize(video_path) (raises if the file is missing);
\* total_chunk_count = math.ceil(file_size / CHUNK_SIZE); the init payload
\* is built from the two.
TkSize ==
    /\ tk.pc = "size"
    /\ IF tk.video_path \in files
       THEN \E size \in FileSizes :
               tk' = [tk EXCEPT !.pc = "init", !.file_size = size,
                                !.total_chunk_count = Ceil(size, CHUNK_SIZE),
                                !.payload =
                                   [video_size |-> size,
                                    chunk_size |->
                                       PayloadChunkSize(Ceil(size, CHUNK_SIZE), size),
                                    total_chunk_count |-> Ceil(size, CHUNK_SIZE)]]
       ELSE tk' = [tk EXCEPT !.pc = "done", !.ret = Bool(FALSE)]
    /\ UNCHANGED <<store, calls, sweep, yt, ig, fb, ph, rf, ls>>

\* One POST to the init endpoint with the given bearer token, and what the
\* call does with the answer.
TkPost(token, retried) ==
    \E response \in InitResponses :
       LET next == IF response = "raise" THEN "fail" ELSE AfterInit(response, retried) IN
       tk' = [tk EXCEPT !.inits = Append(@, token),
                        !.responses = Append(@, response),
                        !.upload_url = (next = "chunks"),
                        !.pc = IF next = "fail" THEN "done" ELSE next,
                        !.ret = IF response = "raise" THEN OnException
                                ELSE IF next = "fail" THEN Bool(FALSE) ELSE @]

\* 1. Initialize the upload session with the token the call was handed.
TkInit ==
    /\ tk.pc = "init"
    /\ TkPost(tk.token_data.access_token, FALSE)
    /\ UNCHANGED <<store, calls, sweep, yt, ig, fb, ph, rf, ls>>

\* refresh_tiktok_token: the exchange is rejected or raises; or it succeeds
\* and the new bundle is stored if the handle works and the record exists.
\* Then: retry the init with the new token, or return False.
TkRefresh ==
    /\ tk.pc = "refresh"
    /\ LET row == FirstCredential(tk.client_id, tiktok)
           done(new_tokens) ==
              tk' = [tk EXCEPT !.refreshes = @ + 1, !.new_tokens = new_tokens,
                               !.pc = IF RetryAfterRefresh(new_tokens) THEN "retry" ELSE "done",
                               !.ret = IF RetryAfterRefresh(new_tokens) THEN @ ELSE Bool(FALSE)]
       IN
       \/ /\ done(NoTokens)                      \* rejected, or the exchange raises
          /\ UNCHANGED social_credentials
       \/ /\ ~tk.db \/ row = NoRow               \* exchanged, but not stored
          /\ done(NoTokens)
          /\ UNCHANGED social_credentials
       \/ /\ tk.db /\ row # NoRow
          /\ \/ /\ social_credentials' =
                      (social_credentials \ {row})
                         \cup {[row EXCEPT !.token_data =
                                               PersistedBundle(RefreshedBundle, @)]}
                /\ done(RefreshedBundle)
             \/ /\ done(NoTokens)                \* the commit raises
                /\ UNCHANGED social_credentials
    /\ UNCHANGED <<posts, files, calls, sweep, yt, ig, fb, ph, rf, ls>>

\* The one retry of the init, with the refreshed token.
TkRetryInit ==
    /\ tk.pc = "retry"
    /\ TkPost(tk.new_tokens.access_token, TRUE)
    /\ UNCHANGED <<store, calls, sweep, yt, ig, fb, ph, rf, ls>>

\* 2. The chunk loop: one PUT per pass, in order; the first rejected chunk
\* (or a raising request) ends the call with False; after the last chunk
\* the call returns True.
TkChunk ==
    /\ tk.pc = "chunks"
    /\ IF tk.i = tk.total_chunk_count
       THEN tk' = [tk EXCEPT !.pc = "done", !.ret = Bool(TRUE)]
       ELSE LET start == ChunkStart(tk.i)
                end == ChunkEnd(start, tk.file_size)
            IN
            \E code \in PutCodes :
               tk' = [tk EXCEPT
                        !.puts = Append(@, [start |-> start, end |-> end,
                                            length |-> ChunkLength(start, tk.file_size),
                                            code |-> code]),
                        !.i = IF Accepted(code) THEN @ + 1 ELSE @,
                        !.pc = IF Accepted(code) THEN @ ELSE "done",
                        !.ret = IF Accepted(code) THEN @ ELSE Bool(FALSE)]
    /\ UNCHANGED <<store, calls, sweep, yt, ig, fb, ph, rf, ls>>

\* The caller takes the return value.
TkReturn ==
    /\ tk.pc = "done"
    /\ tk' = TkIdle
    /\ UNCHANGED <<store, calls, sweep, yt, ig, fb, ph, rf, ls>>

\* ---- publishers/instagram.py

\* _wait_for_processing(self, container_id, retries=20)
Retries == 20

\* What a status poll can come back with: the status_code of the container,
\* or the request raises.
PollResults == {"FINISHED", "ERROR", "IN_PROGRESS", "EXPIRED", "raise"}

\* A wait that only FINISHED ends.
TerminalFinishedOnly(status) == status = "FINISHED"

\* The statuses that end the wait.
Terminal(status) == status \in {"FINISHED", "ERROR"}

\* A flow that goes on to the wait whatever _create_container returned.
HasContainerAlways(container_id) == TRUE

\* if not container_id: return False
HasContainer(container_id) == container_id # None

\* publish_reel(video_url, caption)
IgCall ==
    /\ DriversIdle
    /\ ig' = [IgIdle EXCEPT !.pc = "container"]
    /\ UNCHANGED <<store, calls, sweep, yt, tk, fb, ph, rf, ls>>

\* Phase 1: _create_container returns an id, or None (rejected or raised)
\* and publish_reel returns False.
IgCreateContainer ==
    /\ ig.pc = "container"
    /\ \E id \in {"c1", None} :
          ig' = IF HasContainer(id)
                THEN [ig EXCEPT !.container_id = id, !.pc = "poll"]
                ELSE [ig EXCEPT !.container_id = id, !.pc = "done", !.ret = Bool(FALSE)]
    /\ UNCHANGED <<store, calls, sweep, yt, tk, fb, ph, rf, ls>>

\* Phase 2, one pass of for i in range(retries): FINISHED returns True,
\* ERROR returns False, anything else (after the sleep) and a raising
\* request (without it) go to the next pass.
IgPoll ==
    /\ ig.pc = "poll"
    /\ ig.i < Retries
    /\ \E status \in PollResults :
          ig' = IF Terminal(status)
                THEN [ig EXCEPT !.polls = @ + 1, !.last = status,
                                !.polled = ig.container_id,
                                !.wait = Bool(status = "FINISHED"),
                                !.pc = IF status = "FINISHED" THEN "publish" ELSE "done",
                                !.ret = IF status = "FINISHED" THEN @ ELSE Bool(FALSE)]
                ELSE [ig EXCEPT !.polls = @ + 1, !.last = status,
                                !.polled = ig.container_id, !.i = @ + 1]
    /\ UNCHANGED <<store, calls, sweep, yt, tk, fb, ph, rf, ls>>

\* The loop ran out: _wait_for_processing returns False, and so does
\* publish_reel.
IgTimeout ==
    /\ ig.pc = "poll"
    /\ ig.i = Retries
    /\ ig' = [ig EXCEPT !.wait = Bool(FALSE), !.pc = "done", !.ret = Bool(FALSE)]
    /\ UNCHANGED <<store, calls, sweep, yt, tk, fb, ph, rf, ls>>

\* Phase 3: _publish_container returns True if the response carries an id.
IgPublish ==
    /\ ig.pc = "publish"
    /\ \E ok \in BOOLEAN :
          ig' = [ig EXCEPT !.published = ig.container_id, !.publish = Bool(ok),
                           !.pc = "done", !.ret = Bool(ok)]
    /\ UNCHANGED <<store, calls, sweep, yt, tk, fb, ph, rf, ls>>

\* The caller takes the return value.
IgReturn ==
    /\ ig.pc = "done"
    /\ ig' = IgIdle
    /\ UNCHANGED <<store, calls, sweep, yt, tk, fb, ph, rf, ls>>

\* ---- publishers/facebook.py

\* The page ids publish_reel is called with.
PageIds == {"p1", "p2"}

\* max_attempts = 15
MaxAttempts == 15

\* What a status poll can come back with: the video_status of the upload,
\* "absent" when the body has none; or the request raises.
FbStatuses == {"upload_complete", "ready", "error", "processing", "absent", "raise"}

\* current_state == "upload_complete" or current_state == "ready"
FbReady(current_state) == current_state \in {"upload_complete", "ready"}

\* A poll loop without the error branch.
FbFailedNever(current_state) == FALSE

\* elif current_state == "error"
FbFailed(current_state) == current_state = "error"

\* A flow that goes on whatever the pull request answered.
PullAcceptedAlways(success) == TRUE

\* if not upload_res.get("success"): return False
PullAccepted(success) == success

\* One request of the flow: it is recorded, and the call either goes on to
\* the next phase or returns False.
FbRequest(kind, ok, next) ==
    fb' = IF ok THEN [fb EXCEPT !.reqs = Append(@, kind), !.answer = Bool(TRUE),
                                !.pc = next]
          ELSE [fb EXCEPT !.reqs = Append(@, kind), !.answer = Bool(FALSE),
                          !.pc = "done", !.ret = Bool(FALSE)]

\* publish_reel(video_url, description, target_id)
FbCall(page) ==
    /\ DriversIdle
    /\ fb' = [FbIdle EXCEPT !.pc = "token", !.target_id = page]
    /\ UNCHANGED <<store, calls, sweep, yt, tk, ig, ph, rf, ls>>

\* Phase 0: get_page_access_token returns the token, or None when the body
\* has none or the request raised; without a token publish_reel returns False.
FbPageToken ==
    /\ fb.pc = "token"
    /\ \E page_token \in BOOLEAN : FbRequest("page_token", page_token, "start")
    /\ UNCHANGED <<store, calls, sweep, yt, tk, ig, ph, rf, ls>>

\* Phase 1: upload_phase = start; no video_id (or a raising request) ends
\* the call.
FbStart ==
    /\ fb.pc = "start"
    /\ \E video_id \in BOOLEAN : FbRequest("start", video_id, "pull")
    /\ UNCHANGED <<store, calls, sweep, yt, tk, ig, ph, rf, ls>>

\* Phase 2: ask Meta to pull the file from the public URL; then
\* max_attempts = 15, attempt = 1, is_ready = False.
FbPull ==
    /\ fb.pc = "pull"
    /\ \E success \in BOOLEAN :
          fb' = IF PullAccepted(success)
                THEN [fb EXCEPT !.reqs = Append(@, "pull"), !.answer = Bool(success),
                                !.pc = "poll", !.attempt = 1]
                ELSE [fb EXCEPT !.reqs = Append(@, "pull"), !.answer = Bool(success),
                                !.pc = "done", !.ret = Bool(FALSE)]
    /\ UNCHANGED <<store, calls, sweep, yt, tk, ig, ph, rf, ls>>

\* Phase 2.5, one pass of while attempt <= max_attempts: a ready state
\* breaks out to the finish phase, error returns False, a raising request
\* reaches the outer handler, anything else sleeps and counts the attempt.
FbPoll ==
    /\ fb.pc = "poll"
    /\ fb.attempt <= MaxAttempts
    /\ \E current_state \in FbStatuses :
          fb' = IF current_state = "raise" \/ FbFailed(current_state)
                THEN [fb EXCEPT !.reqs = Append(@, "poll"), !.last = current_state,
                                !.pc = "done",
                                !.ret = IF current_state = "raise" THEN OnException
                                        ELSE Bool(FALSE)]
                ELSE IF FbReady(current_state)
                THEN [fb EXCEPT !.reqs = Append(@, "poll"), !.last = current_state,
                                !.is_ready = TRUE, !.pc = "finish"]
                ELSE [fb EXCEPT !.reqs = Append(@, "poll"), !.last = current_state,
                                !.attempt = @ + 1]
    /\ UNCHANGED <<store, calls, sweep, yt, tk, ig, ph, rf, ls>>

\* The loop ran out: if not is_ready: return False.
FbTimeout ==
    /\ fb.pc = "poll"
    /\ fb.attempt > MaxAttempts
    /\ fb' = [fb EXCEPT !.pc = "done", !.ret = Bool(FALSE)]
    /\ UNCHANGED <<store, calls, sweep, yt, tk, ig, ph, rf, ls>>

\* Phase 3: upload_phase = finish; True if the response reports success.
FbFinish ==
    /\ fb.pc = "finish"
    /\ \E success \in BOOLEAN :
          fb' = [fb EXCEPT !.reqs = Append(@, "finish"), !.answer = Bool(success),
                           !.pc = "done", !.ret = Bool(success)]
    /\ UNCHANGED <<store, calls, sweep, yt, tk, ig, ph, rf, ls>>

\* The caller takes the return value.
FbReturn ==
    /\ fb.pc = "done"
    /\ fb' = FbIdle
    /\ UNCHANGED <<store, calls, sweep, yt, tk, ig, ph, rf, ls>>

\* ---- publishers/tiktok.py: the photo carousel

\* photo_urls[:35]
MaxPhotos == 35

\* Where the slice [:stop] of a list of n items ends.
SliceEnd(n, stop) == IF n <= stop THEN n ELSE stop

\* URL lists a caller may pass: image k of a carousel is the URL k; lists in
\* ascending and in descending order, shorter than, as long as and longer
\* than the limit.
PhotoCounts == {0, 1, 2, MaxPhotos - 1, MaxPhotos, MaxPhotos + 1, MaxPhotos + 2}

PhotoLists ==
    {[i \in 1 .. n |-> i] : n \in PhotoCounts}
       \cup {[i \in 1 .. n |-> n + 1 - i] : n \in PhotoCounts}

\* A driver that submits the list as it came.
SafePhotoUrlsAll(photo_urls) == photo_urls

\* safe_photo_urls = photo_urls[:35]
SafePhotoUrls(photo_urls) == SubSeq(photo_urls, 1, SliceEnd(Len(photo_urls), MaxPhotos))

\* What the content init endpoint can answer: a body whose error.code is
\* "ok", one whose error.code is access_token_invalid, any other body; or the
\* request (or its json()) raises.
PhotoResponses == {"ok", "access_token_invalid", "error", "raise"}

\* res_json.get("error", {}).get("code") == "ok"
PhotoAccepted(response) == response = "ok"

\* upload_photos_to_tiktok(photo_urls, title, token_data, client_id, db):
\* without an access token, or with an empty list, return False at once.
PhCall(photo_urls, token_data, c, db) ==
    /\ DriversIdle
    /\ ph' = IF token_data.access_token = None \/ photo_urls = <<>>
             THEN [PhIdle EXCEPT !.pc = "done", !.photo_urls = photo_urls,
                                 !.token_data = token_data, !.client_id = c, !.db = db,
                                 !.ret = Bool(FALSE)]
             ELSE [PhIdle EXCEPT !.pc = "init", !.photo_urls = photo_urls,
                                 !.token_data = token_data, !.client_id = c, !.db = db,
                                 !.safe_photo_urls = SafePhotoUrls(photo_urls)]
    /\ UNCHANGED <<store, calls, sweep, yt, tk, ig, fb, rf, ls>>

\* One POST of the payload to the content init endpoint with the given
\* bearer token; a raising request ends the call. The first response leads
\* to a refresh on access_token_invalid; any other response, and every
\* response to the retry, is the verdict.
PhPost(token, retried) ==
    \E response \in PhotoResponses :
       LET next == IF ~retried /\ response = "access_token_invalid"
                   THEN "refresh" ELSE "done"
       IN  ph' = [ph EXCEPT !.inits = Append(@, token),
                            !.sent = Append(@, ph.safe_photo_urls),
                            !.responses = Append(@, response),
                            !.pc = IF response = "raise" THEN "done" ELSE next,
                            !.ret = IF response = "raise" THEN OnException
                                    ELSE IF next = "done"
                                         THEN Bool(PhotoAccepted(response))
                                         ELSE @]

\* The init with the token the call was handed.
PhInit ==
    /\ ph.pc = "init"
    /\ PhPost(ph.token_data.access_token, FALSE)
    /\ UNCHANGED <<store, calls, sweep, yt, tk, ig, fb, rf, ls>>

\* refresh_tiktok_token, as in the video driver: without new tokens the call
\* returns False.
PhRefresh ==
    /\ ph.pc = "refresh"
    /\ LET row == FirstCredential(ph.client_id, tiktok)
           done(new_tokens) ==
              ph' = [ph EXCEPT !.refreshes = @ + 1, !.new_tokens = new_tokens,
                               !.pc = IF RetryAfterRefresh(new_tokens) THEN "retry" ELSE "done",
                               !.ret = IF RetryAfterRefresh(new_tokens) THEN @ ELSE Bool(FALSE)]
       IN
       \/ /\ done(NoTokens)                      \* rejected, or the exchange raises
          /\ UNCHANGED social_credentials
       \/ /\ ~ph.db \/ row = NoRow               \* exchanged, but not stored
          /\ done(NoTokens)
          /\ UNCHANGED social_credentials
       \/ /\ ph.db /\ row # NoRow
          /\ \/ /\ social_credentials' =
                      (social_credentials \ {row})
                         \cup {[row EXCEPT !.token_data =
                                               PersistedBundle(RefreshedBundle, @)]}
                /\ done(RefreshedBundle)
             \/ /\ done(NoTokens)                \* the commit raises
                /\ UNCHANGED social_credentials
    /\ UNCHANGED <<posts, files, calls, sweep, yt, tk, ig, fb, rf, ls>>

\* The one retry of the init, with the refreshed token.
PhRetryInit ==
    /\ ph.pc = "retry"
    /\ PhPost(ph.new_tokens.access_token, TRUE)
    /\ UNCHANGED <<store, calls, sweep, yt, tk, ig, fb, rf, ls>>

\* The caller takes the return value.
PhReturn ==
    /\ ph.pc = "done"
    /\ ph' = PhIdle
    /\ UNCHANGED <<store, calls, sweep, yt, tk, ig, fb, rf, ls>>

\* ---- publishers/tiktok.py: refresh_tiktok_token, step by step, called by
\* the TikTok drivers of two overlapping job-processing passes of one client.

\* How many bundles the token endpoint issues in a run of the model.
MaxIssued == 3

\* The n-th bundle the token endpoint issues (access and refresh token).
AccessTokens == <<"a1", "a2", "a3", "a4", "a5">>

RefreshTokens == <<"r1", "r2", "r3", "r4", "r5">>

IssuedBundle(n) == TikTokBundle(AccessTokens[n], RefreshTokens[n])

\* The position of a bundle in the order of issue; 0 for the bundle the
\* callback stored.
SerialOf(bundle) ==
    IF \E n \in DOMAIN AccessTokens : IssuedBundle(n) = bundle
    THEN CHOOSE n \in DOMAIN AccessTokens : IssuedBundle(n) = bundle
    ELSE 0

\* The driver of pass p got access_token_invalid and calls
\* refresh_tiktok_token(client_id, db, token_data).
RfCall(p) ==
    /\ rf.pass[p].pc = "idle"
    /\ rf.issued < MaxIssued
    /\ rf' = [rf EXCEPT !.pass[p].pc = "exchange", !.pass[p].new_data = NoTokens]
    /\ UNCHANGED <<store, calls, sweep, yt, tk, ig, fb, ph, ls>>

\* requests.post(token endpoint): the endpoint issues the next bundle, or
\* the exchange is rejected or raises and the call returns None.
RfExchange(p) ==
    /\ rf.pass[p].pc = "exchange"
    /\ \/ rf' = [rf EXCEPT !.issued = @ + 1,
                           !.pass[p].pc = "store",
                           !.pass[p].new_data = IssuedBundle(rf.issued + 1)]
       \/ rf' = [rf EXCEPT !.pass[p].pc = "done"]
    /\ UNCHANGED <<store, calls, sweep, yt, tk, ig, fb, ph, ls>>

\* cred = query(...).first(); if cred: cred.token_data = new_data; commit.
\* Without a record, or when the commit raises, nothing is stored and the
\* call returns None.
RfStore(p) ==
    /\ rf.pass[p].pc = "store"
    /\ LET row == FirstCredential(1, tiktok)
           new_data == rf.pass[p].new_data
       IN
       \/ /\ row # NoRow
          /\ social_credentials' =
                (social_credentials \ {row})
                   \cup {[row EXCEPT !.token_data = PersistedBundle(new_data, @)]}
          /\ rf' = [rf EXCEPT !.pass[p].pc = "done"]
       \/ /\ rf' = [rf EXCEPT !.pass[p].pc = "done", !.pass[p].new_data = NoTokens]
          /\ UNCHANGED social_credentials
    /\ UNCHANGED <<posts, files, calls, sweep, yt, tk, ig, fb, ph, ls>>

\* The driver takes the return value and goes on.
RfReturn(p) ==
    /\ rf.pass[p].pc = "done"
    /\ rf' = [rf EXCEPT !.pass[p].pc = "idle"]
    /\ UNCHANGED <<store, calls, sweep, yt, tk, ig, fb, ph, ls>>

\* Client 1 with or without a TikTok record.
InitRefresh ==
    /\ posts = <<>>
    /\ social_credentials \in
          {{}, {[client_id |-> 1, platform |-> tiktok,
                 token_data |-> TikTokBundle("a0", "r0")]}}
    /\ files = {}
    /\ pc = [w \in Workers |-> "idle"]
    /\ post_id = [w \in Workers |-> 0]
    /\ local_video_path = [w \in Workers |-> NoPath]
    /\ overall_success = [w \in Workers |-> TRUE]
    /\ idx = [w \in Workers |-> 0]
    /\ creds = [w \in Workers |-> NoRow]
    /\ hist = [w \in Workers |-> NoHist]
    /\ sweep = SweepIdle
    /\ yt = YtIdle
    /\ tk = TkIdle
    /\ ig = IgIdle
    /\ fb = FbIdle
    /\ ph = PhIdle
    /\ rf = RfIdle
    /\ ls = LsIdle

NextRefresh ==
    \E p \in Workers :
       \/ RfCall(p)
       \/ RfExchange(p)
       \/ RfStore(p)
       \/ RfReturn(p)

SpecRefresh == InitRefresh /\ [][NextRefresh]_vars

\* ---- database/listener.py: DBListener.start_listening, the thread main.py
\* starts.  What process_single_post does is left out here: the listener sees
\* a call that returns or raises.

\* How many notifications arrive in a run of the model.
MaxNotifications == 3

\* Payloads of NOTIFY post_updates: text that is not a JSON object, and
\* objects with a status and a post_id.
Payloads ==
    {InvalidPayload,
     [kind |-> "object", status |-> "pending", post_id |-> 1],
     [kind |-> "object", status |-> "pending", post_id |-> 2],
     [kind |-> "object", status |-> "completed", post_id |-> 1]}

\* A listener that hands the job to a thread of its own.
CallOnListenerThreadNot == FALSE

\* process_single_post(...) is a plain call on the listener's thread.
CallOnListenerThread == TRUE

\* A listener whose loop ends with the first failing notification.
AfterHandlerErrorStop == "stopped"

\* "except Exception as e: logger.error(...)" inside the inner while: the
\* loop goes on with the next notification.
AfterHandlerError == "wait"

\* if payload.get("status") == "pending"
ShouldDispatch(status) == status = "pending"

\* self.conn.notifies.pop(0)
NextNotify(notifies) == 1

\* The database delivers a notification: it is queued in conn.notifies in
\* arrival order.
Notify(payload) ==
    /\ ls.pc # "stopped"
    /\ Len(ls.arrived) < MaxNotifications
    /\ ls' = [ls EXCEPT !.arrived = Append(@, payload),
                        !.notifies = Append(@, [seq |-> Len(ls.arrived) + 1,
                                                payload |-> payload])]
    /\ UNCHANGED <<store, calls, sweep, drivers>>

\* notify = self.conn.notifies.pop(0)
LsTake ==
    /\ ls.pc = "wait"
    /\ ls.notifies # <<>>
    /\ LET k == NextNotify(ls.notifies)
           rest == [i \in 1 .. Len(ls.notifies) - 1 |->
                       IF i < k THEN ls.notifies[i] ELSE ls.notifies[i + 1]]
       IN
       ls' = [ls EXCEPT !.pc = "handle",
                        !.notify = ls.notifies[k],
                        !.notifies = rest,
                        !.taken = Append(@, ls.notifies[k].seq)]
    /\ UNCHANGED <<store, calls, sweep, drivers>>

\* json.loads, the status test and the call of process_single_post.
LsHandle ==
    /\ ls.pc = "handle"
    /\ LET payload == ls.notify.payload IN
       ls' = IF payload.kind = "invalid"
             THEN [ls EXCEPT !.pc = AfterHandlerError,
                             !.errors = Append(@, ls.notify.seq)]
             ELSE IF ShouldDispatch(payload.status)
             THEN [ls EXCEPT !.pc = IF CallOnListenerThread THEN "call" ELSE "wait",
                             !.dispatched = Append(@, [seq |-> ls.notify.seq,
                                                       post_id |-> payload.post_id]),
                             !.running = @ \cup {ls.notify.seq}]
             ELSE [ls EXCEPT !.pc = "wait"]
    /\ UNCHANGED <<store, calls, sweep, drivers>>

\* The call returns.
LsCallReturns(k) ==
    /\ k \in ls.running
    /\ ls' = [ls EXCEPT !.running = @ \ {k},
                        !.pc = IF @ = "call" THEN "wait" ELSE @]
    /\ UNCHANGED <<store, calls, sweep, drivers>>

\* The call raises (SessionLocal() or the finally block of
\* process_single_post): the inner handler logs it.
LsCallRaises(k) ==
    /\ k \in ls.running
    /\ ls' = [ls EXCEPT !.running = @ \ {k},
                        !.errors = Append(@, k),
                        !.pc = IF @ = "call" THEN AfterHandlerError ELSE @]
    /\ UNCHANGED <<store, calls, sweep, drivers>>

\* select or conn.poll() raises (the connection is lost): the outer handler
\* logs it, the connection is closed and the thread ends.
LsCrash ==
    /\ ls.pc = "wait"
    /\ ls' = [ls EXCEPT !.pc = "stopped"]
    /\ UNCHANGED <<store, calls, sweep, drivers>>

InitListener ==
    /\ posts = <<>>
    /\ social_credentials = {}
    /\ files = {}
    /\ pc = [w \in Workers |-> "idle"]
    /\ post_id = [w \in Workers |-> 0]
    /\ local_video_path = [w \in Workers |-> NoPath]
    /\ overall_success = [w \in Workers |-> TRUE]
    /\ idx = [w \in Workers |-> 0]
    /\ creds = [w \in Workers |-> NoRow]
    /\ hist = [w \in Workers |-> NoHist]
    /\ sweep = SweepIdle
    /\ yt = YtIdle
    /\ tk = TkIdle
    /\ ig = IgIdle
    /\ fb = FbIdle
    /\ ph = PhIdle
    /\ rf = RfIdle
    /\ ls = LsIdle

NextListener ==
    \/ \E payload \in Payloads : Notify(payload)
    \/ LsTake
    \/ LsHandle
    \/ \E k \in 1 .. MaxNotifications : LsCallReturns(k)
    \/ \E k \in 1 .. MaxNotifications : LsCallRaises(k)
    \/ LsCrash

SpecListener == InitListener /\ [][NextListener]_vars

\* The listener thread keeps running: a queued notification is taken, a
\* taken one handled, and a call of process_single_post comes back.
SpecListenerLive ==
    /\ SpecListener
    /\ WF_vars(LsTake)
    /\ WF_vars(LsHandle)
    /\ WF_vars(\E k \in 1 .. MaxNotifications : LsCallReturns(k) \/ LsCallRaises(k))

\* ---- the drivers, called one at a time

\* The media file of job 1 present or missing, the TikTok credential of
\* client 1 stored or not, nothing in progress.
InitDrivers ==
    /\ posts = <<>>
    /\ social_credentials \in
          {{}, {[client_id |-> 1, platform |-> tiktok,
                 token_data |-> TikTokBundle("a0", "r0")]}}
    /\ files \in {{}, {JobPath(1)}}
    /\ pc = [w \in Workers |-> "idle"]
    /\ post_id = [w \in Workers |-> 0]
    /\ local_video_path = [w \in Workers |-> NoPath]
    /\ overall_success = [w \in Workers |-> TRUE]
    /\ idx = [w \in Workers |-> 0]
    /\ creds = [w \in Workers |-> NoRow]
    /\ hist = [w \in Workers |-> NoHist]
    /\ sweep = SweepIdle
    /\ yt = YtIdle
    /\ tk = TkIdle
    /\ ig = IgIdle
    /\ fb = FbIdle
    /\ ph = PhIdle
    /\ rf = RfIdle
    /\ ls = LsIdle

NextDrivers ==
    \/ YtCall(JobPath(1))
    \/ YtCredentials
    \/ YtBuild
    \/ YtMedia
    \/ YtRespond
    \/ YtReturn
    \/ \E token_data \in TikTokBundles, db \in BOOLEAN :
          TkCall(JobPath(1), token_data, 1, db)
    \/ TkSize
    \/ TkInit
    \/ TkRefresh
    \/ TkRetryInit
    \/ TkChunk
    \/ TkReturn
    \/ IgCall
    \/ IgCreateContainer
    \/ IgPoll
    \/ IgTimeout
    \/ IgPublish
    \/ IgReturn
    \/ \E page \in PageIds : FbCall(page)
    \/ FbPageToken
    \/ FbStart
    \/ FbPull
    \/ FbPoll
    \/ FbTimeout
    \/ FbFinish
    \/ FbReturn
    \/ \E photo_urls \in PhotoLists, token_data \in TikTokBundles, db \in BOOLEAN :
          PhCall(photo_urls, token_data, 1, db)
    \/ PhInit
    \/ PhRefresh
    \/ PhRetryInit
    \/ PhReturn

SpecDrivers == InitDrivers /\ [][NextDrivers]_vars

\* A call is between its entry and its return.
InFlight(w) == pc[w] \notin {"idle", "done"}

\* The call has loaded (or failed to load) its job.
Loaded(w) == pc[w] \notin {"idle", "query"}

\* The platform list of the job the call works on.
PlatformsOf(w) == posts[post_id[w]].platforms

\* An entry reported success: a supported platform, its credential present,
\* and its driver returned True.
EntrySucceeded(e) == e.platform \in Supported /\ e.cred /\ e.result = "true"

\* An entry of the call's log has no credential record.
SomeEntryWithoutCredential(w) == \E i \in DOMAIN hist[w].log : ~hist[w].log[i].cred

\* C1: a call whose job is absent or not pending does nothing: it sets no
\* path, fetches no blob, looks up no credential, calls no driver, writes no
\* status, and the job keeps the status it had.
C1_NoOpUnlessPending ==
    \A w \in Workers :
       (Loaded(w) /\ hist[w].entry # "pending") =>
          /\ pc[w] \in {"except", "finally", "done"}
          /\ local_video_path[w] = NoPath
          /\ hist[w].fetches = 0
          /\ hist[w].lookups = <<>>
          /\ hist[w].calls = <<>>
          /\ hist[w].writes = <<>>
          /\ (hist[w].entry # None => StatusOf(post_id[w]) = hist[w].entry)

\* A call on a job that was already completed has returned.
C1_Witness == \E w \in Workers : pc[w] = "done" /\ hist[w].entry = "completed"

\* C2: after a call whose blob fetch succeeded and that ended without an
\* unexpected exception, every entry of the list was handled and the status is
\* completed if and only if every entry reported success, failed otherwise.
C2_CompletedIffAllSucceed ==
    \A w \in Workers :
       (pc[w] = "done" /\ hist[w].blob = "ok" /\ ~hist[w].raised) =>
          /\ Len(hist[w].log) = Len(PlatformsOf(w))
          /\ StatusOf(post_id[w]) =
                IF \A i \in DOMAIN hist[w].log : EntrySucceeded(hist[w].log[i])
                THEN "completed" ELSE "failed"

\* A job with two entries, both successful, ended completed.
C2_Witness ==
    \E w \in Workers :
       /\ pc[w] = "done" /\ hist[w].blob = "ok" /\ ~hist[w].raised
       /\ Len(hist[w].log) = 2
       /\ StatusOf(post_id[w]) = "completed"

C4_ExceptionMarksFailed ==
    \A w \in Workers :
       (pc[w] = "done" /\ hist[w].entry = "pending" /\ hist[w].raised) =>
          /\ StatusOf(post_id[w]) = "failed"
          /\ JobPath(post_id[w]) \notin files

\* C5: of two calls in flight on the same job, at most one is past the
\* pending check.
C5_OnePastPendingCheck ==
    \A v, w \in Workers :
       (v # w /\ InFlight(v) /\ InFlight(w) /\ post_id[v] = post_id[w]) =>
          ~(local_video_path[v] # NoPath /\ local_video_path[w] # NoPath)

\* C6: completed or failed is only ever written to a job whose status is
\* processing.
C6_TerminalOnlyFromProcessing ==
    [][\A j \in DOMAIN posts :
          (posts'[j].status # posts[j].status
             /\ posts'[j].status \in {"completed", "failed"}) =>
          posts[j].status = "processing"]_vars

\* C7: once the blob fetch of a call has failed, the call looks up no
\* credential and calls no driver, goes straight to the clean-up, and (unless
\* the commit itself raised) the job is failed.
C7_BlobFailure ==
    \A w \in Workers :
       hist[w].blob = "fail" =>
          /\ pc[w] \in {"except", "finally", "done"}
          /\ hist[w].lookups = <<>>
          /\ hist[w].calls = <<>>
          /\ ~hist[w].raised => StatusOf(post_id[w]) = "failed"

\* A call whose blob fetch failed has returned, the job failed.
C7_Witness ==
    \E w \in Workers :
       /\ pc[w] = "done" /\ hist[w].blob = "fail" /\ ~hist[w].raised
       /\ hist[w].writes = <<"failed">>

\* C8: whenever no call is in flight on a job (every call on it has
\* returned, on whichever path), the job's local media file does not exist.
C8_NoFileAfterReturn ==
    \A id \in PostIds :
       (\A w \in Workers : ~(InFlight(w) /\ post_id[w] = id)) =>
          JobPath(id) \notin files

\* A call that fetched the blob and then ran into an unexpected exception
\* has returned.
C8_Witness ==
    \E w \in Workers :
       pc[w] = "done" /\ hist[w].blob = "ok" /\ hist[w].raised

\* C9: a driver that returns False or raises fails its own entry only: no
\* status is written while the loop runs, the loop handles every entry of the
\* list in order, a driver is called for every later entry that has one, and
\* the job ends failed.
C9_FailureIsolated ==
    \A w \in Workers :
       /\ pc[w] \in {"loop", "driver"} => hist[w].writes = <<>>
       /\ (pc[w] \in {"final", "finally", "done"} /\ hist[w].blob = "ok"
             /\ ~hist[w].raised) =>
             /\ Len(hist[w].log) = Len(PlatformsOf(w))
             /\ \A i \in DOMAIN hist[w].log :
                   /\ hist[w].log[i].platform = lower(PlatformsOf(w)[i])
                   /\ hist[w].log[i].result \in Results =>
                         \E k \in DOMAIN hist[w].calls : hist[w].calls[k].entry = i
       /\ (pc[w] = "done" /\ ~hist[w].raised
             /\ \E i \in DOMAIN hist[w].log : hist[w].log[i].result \in {"false", "raise"}) =>
             StatusOf(post_id[w]) = "failed"

\* The first driver raised, the second was still called and returned True,
\* and the job ended failed.
C9_Witness ==
    \E w \in Workers :
       /\ pc[w] = "done" /\ ~hist[w].raised
       /\ Len(hist[w].log) = 2
       /\ hist[w].log[1].result = "raise"
       /\ hist[w].log[2].result = "true"
       /\ Len(hist[w].calls) = 2
       /\ StatusOf(post_id[w]) = "failed"

\* C10: an entry without a credential record fails without a driver call,
\* the remaining entries are still handled, and the job ends failed.
C10_MissingCredential ==
    \A w \in Workers :
       /\ \A i \in DOMAIN hist[w].log :
             ~hist[w].log[i].cred =>
                /\ hist[w].log[i].result = "none"
                /\ \A k \in DOMAIN hist[w].calls : hist[w].calls[k].entry # i
       /\ (pc[w] \in {"final", "finally", "done"} /\ ~hist[w].raised
             /\ SomeEntryWithoutCredential(w)) =>
             Len(hist[w].log) = Len(PlatformsOf(w))
       /\ (pc[w] = "done" /\ ~hist[w].raised /\ SomeEntryWithoutCredential(w)) =>
             StatusOf(post_id[w]) = "failed"

\* The first entry had no credential, the second one's driver was called and
\* returned True, and the job ended failed.
C10_Witness ==
    \E w \in Workers :
       /\ pc[w] = "done" /\ ~hist[w].raised
       /\ Len(hist[w].log) = 2
       /\ ~hist[w].log[1].cred
       /\ hist[w].log[2].result = "true"
       /\ Len(hist[w].calls) = 1
       /\ StatusOf(post_id[w]) = "failed"

\* C11: an entry whose name is none of youtube, tiktok, instagram, facebook
\* counts as a failure whether or not a credential record exists under that
\* name: no driver is called for it, the remaining entries are still handled,
\* and the job ends failed.
C11_UnknownPlatformFails ==
    \A w \in Workers :
       LET unknown == {i \in DOMAIN hist[w].log : hist[w].log[i].platform \notin Supported}
       IN
       /\ \A i \in unknown :
             /\ hist[w].log[i].result = "none"
             /\ \A k \in DOMAIN hist[w].calls : hist[w].calls[k].entry # i
       /\ (pc[w] \in {"final", "finally", "done"} /\ ~hist[w].raised /\ unknown # {}) =>
             Len(hist[w].log) = Len(PlatformsOf(w))
       /\ (pc[w] = "done" /\ ~hist[w].raised /\ unknown # {}) =>
             /\ hist[w].writes = <<"failed">>
             /\ StatusOf(post_id[w]) = "failed"

\* The first entry was vimeo with a credential record stored under that
\* name, the second one's driver was called and returned True, and the job
\* ended failed.
C11_Witness ==
    \E w \in Workers :
       /\ pc[w] = "done" /\ ~hist[w].raised
       /\ Len(hist[w].log) = 2
       /\ hist[w].log[1].platform = vimeo
       /\ hist[w].log[1].cred
       /\ hist[w].log[2].result = "true"
       /\ Len(hist[w].calls) = 1
       /\ StatusOf(post_id[w]) = "failed"

\* C12: a call that found its job pending has written the status exactly
\* once by the time it returns, on every path: blob failure, normal
\* aggregation, unexpected exception.
C12_ExactlyOneStatusWrite ==
    \A w \in Workers :
       (pc[w] = "done" /\ hist[w].entry = "pending") => Len(hist[w].writes) = 1

\* C13: a call that found its job pending requests the blob exactly once,
\* and every driver it calls is handed that one local copy: the job-scoped
\* path itself or the public URL of the same file.
C13_OneFetchOneCopy ==
    \A w \in Workers :
       /\ hist[w].fetches <= 1
       /\ (Loaded(w) /\ hist[w].entry = "pending" /\ pc[w] # "download") =>
             hist[w].fetches = 1
       /\ \A k \in DOMAIN hist[w].calls :
             /\ hist[w].fetches = 1 /\ hist[w].blob = "ok"
             /\ hist[w].calls[k].media \in {JobPath(post_id[w]), PublicUrl(post_id[w])}
             /\ hist[w].calls[k].media = JobPath(post_id[w]) =>
                   local_video_path[w] = JobPath(post_id[w])

\* A call handed the local path to one driver and the public URL of the same
\* file to the next, after a single fetch.
C13_Witness ==
    \E w \in Workers :
       /\ pc[w] = "done" /\ hist[w].fetches = 1
       /\ Len(hist[w].calls) = 2
       /\ hist[w].calls[1].media = JobPath(post_id[w])
       /\ hist[w].calls[2].media = PublicUrl(post_id[w])

\* C14: whichever trigger handled a job, its status is always one of
\* pending, processing, completed, failed.
C14_StatusVocabulary ==
    \A i \in DOMAIN posts :
       posts[i].status \in {"pending", "processing", "completed", "failed"}

\* C15: upload_video returns True only if an upload request was submitted to
\* YouTube and the response to it carried a video id.
C15_TrueOnlyIfUploaded ==
    yt.ret = "true" => (yt.submitted /\ yt.video_id \notin {None, SimulatedId})

\* C16: for a file of S >= 0 bytes and C = 20 MiB the range of chunk i starts
\* at i*C and ends at min(start + C - 1, S - 1); an upload that returned True
\* has issued exactly ceil(S/C) PUTs whose ranges cover the bytes 0 .. S-1
\* without gap or overlap.
C16_ChunkRanges ==
    LET C == 20 * 1024 * 1024
        S == tk.file_size
        n == Len(tk.puts)
        Min(a, b) == IF a <= b THEN a ELSE b
    IN
    /\ \A k \in 1 .. n :
          /\ tk.puts[k].start = (k - 1) * C
          /\ tk.puts[k].end = Min(tk.puts[k].start + C - 1, S - 1)
    /\ tk.ret = "true" =>
          /\ n * C >= S
          /\ n > 0 => (n - 1) * C < S
          /\ n = 0 => S = 0
          /\ n > 0 => tk.puts[1].start = 0 /\ tk.puts[n].end = S - 1
          /\ \A k \in 1 .. n : tk.puts[k].start <= tk.puts[k].end
          /\ \A k \in 1 .. n - 1 : tk.puts[k + 1].start = tk.puts[k].end + 1

\* A file one byte longer than two chunks went up in three PUTs, the last
\* of them carrying the single byte.
C16_Witness ==
    /\ tk.ret = "true"
    /\ tk.file_size = 2 * CHUNK_SIZE + 1
    /\ Len(tk.puts) = 3
    /\ tk.puts[3].start = tk.puts[3].end

\* C17: a call makes at most one refresh and at most two init requests; after
\* a successful refresh the init is retried once, with the new token; if the
\* retried init again answers access_token_invalid, the call returns False
\* with no second refresh, no third init and no chunk sent.
C17_OneRefreshOneRetry ==
    /\ tk.refreshes <= 1
    /\ Len(tk.inits) <= 2
    /\ tk.new_tokens # NoTokens =>
          /\ tk.refreshes = 1
          /\ tk.pc = "retry" \/ Len(tk.inits) = 2
    /\ Len(tk.inits) = 2 =>
          /\ tk.new_tokens # NoTokens
          /\ tk.inits[2] = tk.new_tokens.access_token
          /\ tk.responses[1] = "access_token_invalid"
    /\ (Len(tk.responses) = 2 /\ tk.responses[2] = "access_token_invalid") =>
          /\ tk.pc = "done" /\ tk.ret = "false"
          /\ tk.refreshes = 1
          /\ tk.puts = <<>>

\* Both the first init and the retried one answered access_token_invalid,
\* and the call has returned False.
C17_Witness ==
    /\ tk.pc = "done" /\ tk.ret = "false"
    /\ tk.responses = <<"access_token_invalid", "access_token_invalid">>
    /\ tk.inits = <<"a0", "a1">>
    /\ tk.refreshes = 1

\* C18: when the refresh fails (the endpoint rejects it, the exchange raises,
\* no stored record is found, or there is no handle on the credential store)
\* the call returns False without retrying the init and without sending a
\* chunk.
C18_RefreshFailure ==
    (tk.refreshes = 1 /\ tk.new_tokens = NoTokens) =>
       /\ tk.pc = "done" /\ tk.ret = "false"
       /\ Len(tk.inits) = 1
       /\ tk.puts = <<>>

\* A refresh failed with a working handle and no stored TikTok record, and
\* the call has returned False.
C18_Witness ==
    /\ tk.refreshes = 1 /\ tk.new_tokens = NoTokens
    /\ tk.db /\ FirstCredential(tk.client_id, tiktok) = NoRow
    /\ tk.ret = "false"

\* C19: the call returns True if and only if the last init answered with an
\* upload URL and every chunk was PUT and accepted (200, 201 or 206); chunks
\* go up one after the other in ascending order, and none follows a rejected
\* one.
C19_TrueIffAllChunksAccepted ==
    LET n == Len(tk.puts)
        ok(k) == tk.puts[k].code \in {200, 201, 206}
        url == tk.responses # <<>> /\ tk.responses[Len(tk.responses)] = "upload_url"
    IN
    /\ tk.pc = "done" =>
          (tk.ret = "true" <=>
              (url /\ n = tk.total_chunk_count /\ \A k \in 1 .. n : ok(k)))
    /\ \A k \in 1 .. n - 1 : ok(k) /\ tk.puts[k].start < tk.puts[k + 1].start
    /\ (n > 0 /\ ~ok(n)) => (tk.pc = "done" /\ tk.ret = "false")
    /\ n > 0 => url

\* After a refresh and a retried init two chunks went up, answered 201 and
\* 206, and the call returned True.
C19_Witness ==
    /\ tk.pc = "done" /\ tk.ret = "true"
    /\ Len(tk.inits) = 2
    /\ Len(tk.puts) = 2
    /\ tk.puts[1].code = 201 /\ tk.puts[2].code = 206

\* C20: _wait_for_processing makes at most 20 status requests; it returns True
\* at the first FINISHED and False at the first ERROR, without a further
\* request; any other status, and a request that raised, leave it polling;
\* after 20 requests without a terminal status it returns False.
C20_BoundedPolling ==
    /\ ig.polls <= 20
    /\ ig.last = "FINISHED" <=> ig.wait = "true"
    /\ ig.last = "ERROR" => (ig.wait = "false" /\ ig.pc = "done" /\ ig.ret = "false")
    /\ (ig.polls > 0 /\ ig.polls < 20 /\ ig.last \notin {"FINISHED", "ERROR"}) =>
          (ig.pc = "poll" /\ ig.wait = None)
    /\ ig.wait = "false" => (ig.last = "ERROR" \/ ig.polls = 20)
    /\ (ig.pc = "poll" /\ ig.polls > 0) => ig.last \notin {"FINISHED", "ERROR"}

\* Twenty polls, the last of which raised, none terminal: the wait returned
\* False.
C20_Witness ==
    /\ ig.polls = 20
    /\ ig.last = "raise"
    /\ ig.wait = "false"
    /\ ig.pc = "done"

\* The number of requests of one kind a Facebook call has made.
FbCount(kind) == Cardinality({k \in DOMAIN fb.reqs : fb.reqs[k] = kind})

\* C21: Facebook publish_reel makes at most 15 status requests; it goes to the
\* finish phase at the first ready or upload_complete, returns False at the
\* first error, keeps polling on any other status, and after 15 polls without
\* a terminal status returns False without sending the finish request.
C21_FacebookPolling ==
    LET polls == FbCount("poll") IN
    /\ polls <= 15
    /\ fb.last \in {"ready", "upload_complete"} =>
          (fb.is_ready /\ fb.pc \in {"finish", "done"})
    /\ fb.last = "error" =>
          (fb.pc = "done" /\ fb.ret = "false" /\ FbCount("finish") = 0)
    /\ (fb.last \in {"processing", "absent"} /\ polls < 15) => fb.pc = "poll"
    /\ (fb.last \in {"processing", "absent"} /\ polls = 15 /\ fb.pc = "done") =>
          (fb.ret = "false" /\ FbCount("finish") = 0)
    /\ (fb.pc = "poll" /\ polls > 0) => fb.last \in {"processing", "absent"}
    /\ FbCount("finish") > 0 => fb.last \in {"ready", "upload_complete"}

\* Fifteen polls, none terminal: the call returned False and sent no finish
\* request.
C21_Witness ==
    /\ FbCount("poll") = 15
    /\ fb.last = "processing"
    /\ fb.pc = "done" /\ fb.ret = "false"
    /\ FbCount("finish") = 0

\* The place of a request in the Facebook flow.
FbRank(kind) ==
    CASE kind = "page_token" -> 1
      [] kind = "start" -> 2
      [] kind = "pull" -> 3
      [] kind = "poll" -> 4
      [] kind = "finish" -> 5

\* C23: the Facebook requests go out in the order page-token exchange,
\* session start, pull request, status polls, finish, none skipped and only
\* the poll repeated; a request that yields no page token, no video id or no
\* success flag, an error status or a poll timeout ends the call with False
\* and nothing is sent after it; the finish request follows an observed ready
\* or upload_complete, and True is returned only on a finish response that
\* reports success.
C23_FacebookPhaseOrder ==
    LET n == Len(fb.reqs) IN
    /\ n > 0 => fb.reqs[1] = "page_token"
    /\ \A k \in 1 .. n - 1 :
          \/ FbRank(fb.reqs[k + 1]) = FbRank(fb.reqs[k]) + 1
          \/ fb.reqs[k] = "poll" /\ fb.reqs[k + 1] = "poll"
    /\ (n > 0 /\ fb.reqs[n] # "poll" /\ fb.answer = "false") =>
          (fb.pc = "done" /\ fb.ret = "false")
    /\ (n > 0 /\ fb.reqs[n] = "poll" /\ fb.last = "error") =>
          (fb.pc = "done" /\ fb.ret = "false")
    /\ (fb.pc = "done" /\ n > 0 /\ fb.reqs[n] # "finish") => fb.ret = "false"
    /\ FbCount("finish") > 0 =>
          (fb.is_ready /\ fb.last \in {"ready", "upload_complete"} /\ fb.reqs[n] = "finish")
    /\ fb.ret = "true" => (n > 0 /\ fb.reqs[n] = "finish" /\ fb.answer = "true")

\* All five kinds of request went out, with two polls, and the call
\* returned True.
C23_Witness ==
    /\ fb.ret = "true"
    /\ fb.reqs = <<"page_token", "start", "pull", "poll", "poll", "finish">>

\* C22: Instagram publish_reel sends the publish-container request only after
\* it obtained a container id and saw FINISHED for that container; without a
\* container id it makes no status poll and no publish request; it returns
\* True only if the publish-container response carried a post id.
C22_InstagramPhaseOrder ==
    /\ ig.polls > 0 => (ig.container_id # None /\ ig.polled = ig.container_id)
    /\ ig.publish # None =>
          /\ ig.container_id # None
          /\ ig.published = ig.container_id /\ ig.polled = ig.container_id
          /\ ig.last = "FINISHED" /\ ig.wait = "true"
    /\ (ig.pc \notin {"idle", "container"} /\ ig.container_id = None) =>
          /\ ig.polls = 0 /\ ig.publish = None
          /\ ig.pc = "done" /\ ig.ret = "false"
    /\ ig.ret = "true" => ig.publish = "true"
    /\ ig.pc = "publish" => ig.last = "FINISHED"

\* A container was created, the third poll saw FINISHED, the publish
\* response carried an id, and the call returned True.
C22_Witness ==
    /\ ig.ret = "true"
    /\ ig.container_id = "c1"
    /\ ig.polls = 3
    /\ ig.publish = "true"

\* C24: for a file of S >= 1 bytes the init request declares video_size = S,
\* total_chunk_count = ceil(S / 20 MiB), and chunk_size = S when that count is
\* 1 and 20 MiB otherwise; so chunk_size * (total_chunk_count - 1) <
\* video_size <= chunk_size * total_chunk_count, and the file goes in several
\* chunks exactly when S exceeds 20 MiB.
C24_InitPayload ==
    LET C == 20 * 1024 * 1024
        S == tk.file_size
        p == tk.payload
    IN
    (tk.inits # <<>> /\ S >= 1) =>
       /\ p.video_size = S
       /\ p.total_chunk_count * C >= S
       /\ (p.total_chunk_count - 1) * C < S
       /\ p.chunk_size = IF p.total_chunk_count = 1 THEN S ELSE C
       /\ p.chunk_size * (p.total_chunk_count - 1) < p.video_size
       /\ p.video_size <= p.chunk_size * p.total_chunk_count
       /\ p.total_chunk_count > 1 <=> S > C
       /\ p.total_chunk_count = tk.total_chunk_count

\* An init request went out for a file of exactly 20 MiB: one chunk of the
\* size of the file.
C24_Witness ==
    /\ tk.inits # <<>>
    /\ tk.file_size = CHUNK_SIZE
    /\ tk.payload.total_chunk_count = 1
    /\ tk.payload.chunk_size = tk.file_size

\* C25: within one call the drivers run one at a time in the order of the
\* job's platform list: when the driver of an entry starts, every earlier
\* entry has been handled and no later one has been touched; no entry is
\* handled twice or left out.
C25_DriversInListOrder ==
    \A w \in Workers :
       /\ \A k \in 1 .. Len(hist[w].calls) - 1 :
             hist[w].calls[k].entry < hist[w].calls[k + 1].entry
       /\ \A k \in DOMAIN hist[w].calls : hist[w].calls[k].entry <= Len(hist[w].log)
       /\ \A i \in DOMAIN hist[w].log :
             /\ i <= Len(PlatformsOf(w))
             /\ hist[w].log[i].platform = lower(PlatformsOf(w)[i])
       /\ pc[w] = "driver" =>
             /\ idx[w] \in DOMAIN PlatformsOf(w)
             /\ Len(hist[w].log) = idx[w] - 1
             /\ \A k \in DOMAIN hist[w].calls : hist[w].calls[k].entry < idx[w]
       /\ (pc[w] \in {"final", "finally", "done"} /\ hist[w].blob = "ok" /\ ~hist[w].raised) =>
             Len(hist[w].log) = Len(PlatformsOf(w))

\* The driver of the second entry is about to run; the first entry's driver
\* has been called and its outcome is logged.
C25_Witness ==
    \E w \in Workers :
       /\ pc[w] = "driver" /\ idx[w] = 2
       /\ Len(hist[w].calls) = 1 /\ hist[w].calls[1].entry = 1
       /\ Len(hist[w].log) = 1

\* Two names are the same up to the case of their letters.
SameName(raw, name) ==
    /\ Len(raw) = Len(name)
    /\ \A i \in DOMAIN raw : raw[i] \in {name[i], UpperChar(name[i])}

\* The driver each platform is published with.
DriverOf(name) ==
    CASE name = youtube -> "upload_video"
      [] name = tiktok -> "upload_video_to_tiktok"
      [] name = instagram -> "InstagramPublisher"
      [] name = facebook -> "FacebookPublisher"

\* C26: an entry is matched whatever the case of its letters: every spelling
\* of a platform name selects that platform's driver and credential key;
\* instagram and facebook are both looked up under the tenant's instagram
\* record, youtube and tiktok each under their own.
C26_CaseInsensitiveRouting ==
    \A w \in Workers : \A name \in Supported :
       \A i \in DOMAIN hist[w].lookups :
          SameName(PlatformsOf(w)[i], name) =>
             /\ hist[w].lookups[i] =
                   IF name \in {instagram, facebook} THEN instagram ELSE name
             /\ (pc[w] = "driver" /\ idx[w] = i) =>
                   /\ creds[w].client_id = posts[post_id[w]].client_id
                   /\ creds[w].platform = hist[w].lookups[i]
             /\ \A k \in DOMAIN hist[w].calls :
                   hist[w].calls[k].entry = i => hist[w].calls[k].driver = DriverOf(name)
             /\ (i \in DOMAIN hist[w].log /\ hist[w].log[i].cred /\ name # facebook) =>
                   \E k \in DOMAIN hist[w].calls : hist[w].calls[k].entry = i

\* The entry 'TIKTOK' was looked up under tiktok and published with the
\* TikTok driver.
C26_Witness ==
    \E w \in Workers :
       /\ Loaded(w) /\ Exists(post_id[w])
       /\ PlatformsOf(w) = << <<"T", "I", "K", "T", "O", "K">> >>
       /\ hist[w].lookups = <<tiktok>>
       /\ Len(hist[w].calls) = 1
       /\ hist[w].calls[1].driver = "upload_video_to_tiktok"

\* A step of a TikTok call (before, after) that is a successful refresh: the
\* record of (tenant, tiktok) is replaced by the bundle the exchange returned,
\* and the init has been sent once only.
RefreshWrites(before, after) ==
    /\ before.pc = "refresh" /\ after.pc = "retry"
    /\ after.new_tokens # NoTokens
    /\ after.inits = before.inits /\ Len(before.inits) = 1
    /\ \E row \in social_credentials :
          /\ row.client_id = before.client_id /\ row.platform = tiktok
          /\ social_credentials' =
                (social_credentials \ {row})
                   \cup {[row EXCEPT !.token_data = after.new_tokens]}

\* C27: a TikTok call (video or photo) changes the credential store only by a
\* successful refresh: the record of (tenant, tiktok) then holds exactly the
\* bundle the exchange returned, and it does so before the init is retried; a
\* refresh that fails leaves the store as it was.
C27_RefreshPersistence ==
    [][ /\ social_credentials' # social_credentials =>
             (RefreshWrites(tk, tk') \/ RefreshWrites(ph, ph'))
        /\ (tk.pc = "refresh" /\ tk'.new_tokens # NoTokens) =>
             FirstCredential(tk.client_id, tiktok)'.token_data = tk'.new_tokens
        /\ (tk.pc = "refresh" /\ tk'.new_tokens = NoTokens) =>
             social_credentials' = social_credentials
        /\ (ph.pc = "refresh" /\ ph'.new_tokens # NoTokens) =>
             FirstCredential(ph.client_id, tiktok)'.token_data = ph'.new_tokens
        /\ (ph.pc = "refresh" /\ ph'.new_tokens = NoTokens) =>
             social_credentials' = social_credentials
      ]_vars

\* The refreshed bundle is in the store and the init has not been retried
\* yet.
C27_Witness ==
    /\ tk.pc = "retry"
    /\ Len(tk.inits) = 1
    /\ tk.token_data = TikTokBundle("a0", "r0")
    /\ FirstCredential(tk.client_id, tiktok).token_data = TikTokBundle("a1", "r1")
    /\ tk.new_tokens = TikTokBundle("a1", "r1")

\* C28: a step of a job-processing call changes at most one credential record,
\* and only by replacing the TikTok record of the job's own client: the YouTube
\* record, the Meta record shared by Instagram and Facebook, and every record
\* of another client are the same after the call as before it.
C28_CredentialFrame ==
    [][\A w \in Workers :
          (pc'[w] # pc[w] \/ hist'[w] # hist[w]) =>
             LET gone == social_credentials \ social_credentials'
                 new == social_credentials' \ social_credentials
             IN  /\ Cardinality(gone) <= 1
                 /\ Cardinality(new) = Cardinality(gone)
                 /\ \A r \in gone \cup new :
                        /\ r.platform = tiktok
                        /\ r.client_id = posts[post_id[w]].client_id]_vars

\* A finished call of client 1 that ran the YouTube and the TikTok driver and
\* whose TikTok driver stored a refreshed bundle: every other record is as
\* it was.
C28_Witness ==
    \E w \in Workers :
       /\ pc[w] = "done"
       /\ Loaded(w) /\ Exists(post_id[w])
       /\ posts[post_id[w]].client_id = 1
       /\ \E k \in DOMAIN hist[w].calls : hist[w].calls[k].driver = "upload_video"
       /\ \E k \in DOMAIN hist[w].calls : hist[w].calls[k].driver = "upload_video_to_tiktok"
       /\ FirstCredential(1, tiktok).token_data = RefreshedBundle
       /\ {r \in TenantRecords : ~(r.client_id = 1 /\ r.platform = tiktok)}
             \subseteq social_credentials
       /\ Cardinality(social_credentials) = Cardinality(TenantRecords)

\* C29: while calls for different jobs overlap, a step of one call never uses
\* the local path of the other job: the two paths differ, the step neither
\* creates nor deletes the other job's media file, and its download does not
\* write over it.
C29_JobScopedFiles ==
    [][\A w, v \in Workers :
          ( /\ w # v
            /\ pc'[w] # pc[w]
            /\ InFlight(v)
            /\ local_video_path[v] # NoPath
            /\ post_id'[w] # post_id[v] ) =>
             /\ local_video_path'[w] # local_video_path[v]
             /\ (local_video_path[v] \in files') <=> (local_video_path[v] \in files)
             /\ ~(pc[w] = "download" /\ local_video_path[w] = local_video_path[v])]_vars

\* Two calls for different jobs, both past the download and before the
\* clean-up, each with its own media file on disk.
C29_Witness ==
    \E w, v \in Workers :
       /\ post_id[w] # post_id[v]
       /\ pc[w] \in {"loop", "driver", "final"}
       /\ pc[v] \in {"loop", "driver", "final"}
       /\ local_video_path[w] \in files
       /\ local_video_path[v] \in files
       /\ Cardinality(files) = 2

\* The pairings of a Meta bundle whose Instagram account is the active one.
Matching(token_data) ==
    {i \in DOMAIN token_data.available_accounts :
        token_data.available_accounts[i].ig_id = token_data.instagram_account_id}

\* C30: when a call dispatches a facebook entry for which it fetched a
\* credential record, it invokes FacebookPublisher exactly once, with the page
\* id of the pairing whose ig_id is the record's active Instagram account; if
\* no pairing matches, it invokes no driver for the entry, logs the entry as
\* not dispatched and the job can no longer complete.
C30_FacebookTarget ==
    [][\A w \in Workers :
          ( /\ pc[w] = "driver"
            /\ pc'[w] # pc[w]
            /\ lower(posts[post_id[w]].platforms[idx[w]]) = facebook ) =>
             LET token_data == creds[w].token_data
                 hits == Matching(token_data)
             IN  IF hits # {}
                 THEN /\ Len(hist'[w].calls) = Len(hist[w].calls) + 1
                      /\ LET call == hist'[w].calls[Len(hist'[w].calls)]
                         IN  /\ call.driver = "FacebookPublisher"
                             /\ call.entry = idx[w]
                             /\ \E i \in hits :
                                   call.target = token_data.available_accounts[i].page_id
                 ELSE /\ hist'[w].calls = hist[w].calls
                      /\ hist'[w].log[Len(hist'[w].log)].result = "none"
                      /\ ~overall_success'[w]]_vars

\* A call that invoked FacebookPublisher with page p2, the page paired with
\* the active account ig2 in a record whose first pairing is (ig1, p1).
C30_Witness ==
    \E w \in Workers :
       /\ pc[w] = "loop"
       /\ creds[w].token_data = MetaTwoPages
       /\ hist[w].calls # <<>>
       /\ LET call == hist[w].calls[Len(hist[w].calls)]
          IN  call.driver = "FacebookPublisher" /\ call.target = "p2"

\* C31: every finished driver call has returned a boolean, and a call whose
\* last remote request raised (the TikTok init, the Facebook status read) or
\* whose client library raised (YouTube) has returned false: no outcome of a
\* remote request leaves a driver as an exception.
C31_DriversReturnBooleans ==
    /\ yt.pc = "done" => yt.ret \in {"true", "false"}
    /\ tk.pc = "done" => tk.ret \in {"true", "false"}
    /\ ig.pc = "done" => ig.ret \in {"true", "false"}
    /\ fb.pc = "done" => fb.ret \in {"true", "false"}
    /\ (tk.responses # <<>> /\ tk.responses[Len(tk.responses)] = "raise") =>
          (tk.pc = "done" /\ tk.ret = "false")
    /\ fb.last = "raise" => (fb.pc = "done" /\ fb.ret = "false")

\* A TikTok call whose retried init raised after a successful refresh, ended
\* with false.
C31_Witness ==
    /\ tk.pc = "done"
    /\ Len(tk.responses) = 2
    /\ tk.responses[2] = "raise"
    /\ tk.ret = "false"

\* C32: every job in the job store has a non-empty platform list.
C32_NonEmptyPlatforms ==
    \A id \in DOMAIN posts : posts[id].platforms # <<>>

\* The input list cut to its first MaxPhotos items, order kept.
FirstPhotos(photo_urls, images) ==
    /\ Len(images) = (IF Len(photo_urls) <= MaxPhotos THEN Len(photo_urls) ELSE MaxPhotos)
    /\ \A i \in DOMAIN images : images[i] = photo_urls[i]

\* What a finished carousel call with a submitted init has done: every init
\* carried the first min(n, 35) URLs in order, and the call returned true
\* exactly if the last init response has the code ok.
PhotoSubmitted ==
    /\ ph.inits # <<>>
    /\ Len(ph.inits) <= 2
    /\ \A k \in DOMAIN ph.sent : FirstPhotos(ph.photo_urls, ph.sent[k])
    /\ ph.ret = "true" <=> ph.responses[Len(ph.responses)] = "ok"

\* What a finished carousel call without any remote request looks like.
PhotoNothingSent ==
    /\ ph.inits = <<>>
    /\ ph.refreshes = 0
    /\ ph.ret = "false"

\* C33 as stated: an empty URL list fails without a remote call; any other
\* list is submitted, cut to its first 35 URLs, and the call returns true
\* exactly if the last init response has the code ok.
C33_PhotoCarousel ==
    ph.pc = "done" =>
       IF ph.photo_urls = <<>> THEN PhotoNothingSent ELSE PhotoSubmitted

\* C33, amended: a call without an access token, or with an empty URL list,
\* fails without a remote call; every other call submits the first
\* min(n, 35) URLs in order and returns true exactly if the last init
\* response (the retried one after a refresh) has the code ok.
C33_PhotoCarouselWithToken ==
    ph.pc = "done" =>
       IF ph.photo_urls = <<>> \/ ph.token_data.access_token = None
       THEN PhotoNothingSent
       ELSE PhotoSubmitted

\* A call with 37 URLs whose first init was answered access_token_invalid
\* and whose retry was answered ok: both inits carried the first 35 URLs.
C33_Witness ==
    /\ ph.pc = "done"
    /\ Len(ph.photo_urls) = MaxPhotos + 2
    /\ ph.photo_urls[1] = MaxPhotos + 2
    /\ ph.responses = <<"access_token_invalid", "ok">>
    /\ Len(ph.sent[2]) = MaxPhotos
    /\ ph.ret = "true"

\* C34: a terminal status is absorbing: no step changes the status of a job
\* that is completed or failed.
C34_TerminalAbsorbing ==
    [][\A j \in DOMAIN posts :
          posts[j].status \in {"completed", "failed"} =>
             posts'[j].status = posts[j].status]_vars

\* C35: while a driver runs for a job, in any call, the job's local media
\* file exists.
C35_FileWhileDriverRuns ==
    \A w \in Workers :
       pc[w] = "driver" => JobPath(post_id[w]) \in files

\* C36: within one call no driver is invoked twice.
C36_OneCallPerPlatform ==
    \A w \in Workers :
       \A k1, k2 \in DOMAIN hist[w].calls :
          k1 # k2 => hist[w].calls[k1].driver # hist[w].calls[k2].driver

\* C37: a credential-store write never replaces a bundle by one the token
\* endpoint issued earlier (so the bundle stored at the end is the one issued
\* last among those stored).
C37_NewestBundleWins ==
    [][\A old \in social_credentials, new \in social_credentials' :
          (old \notin social_credentials' /\ new \notin social_credentials) =>
             SerialOf(new.token_data) >= SerialOf(old.token_data)]_vars

\* C38: when a run of the sweep has ended, no job is left in processing:
\* every job the run moved to processing got its final status from that run.
C38_SweepLeavesNoneProcessing ==
    sweep.pc = "idle" =>
       \A id \in DOMAIN posts : posts[id].status # "processing"

\* C39: the listener takes the notifications one at a time in arrival order,
\* calls process exactly for those it has handled whose payload is an object
\* with status pending (with the post_id of the payload), and has no call
\* in progress when it takes a notification: at most one call runs at a time.
C39_ListenerSerial ==
    /\ \A i \in DOMAIN ls.taken : ls.taken[i] = i
    /\ Cardinality(ls.running) <= 1
    /\ ls.pc \in {"wait", "handle", "stopped"} => ls.running = {}
    /\ \A k \in DOMAIN ls.dispatched :
          LET call == ls.dispatched[k] IN
          /\ ls.arrived[call.seq].kind = "object"
          /\ ls.arrived[call.seq].status = "pending"
          /\ ls.arrived[call.seq].post_id = call.post_id
          /\ \A j \in DOMAIN ls.dispatched : j < k => ls.dispatched[j].seq < call.seq
    /\ \A i \in DOMAIN ls.taken :
          (ls.arrived[i].kind = "object" /\ ls.arrived[i].status = "pending"
             /\ ~(ls.pc = "handle" /\ ls.notify.seq = i)) =>
             \E k \in DOMAIN ls.dispatched : ls.dispatched[k].seq = i

\* Three notifications taken, the first and the third pending, the second
\* not: two calls were made, the first has returned, the second is running.
C39_Witness ==
    /\ Len(ls.taken) = 3
    /\ ls.arrived[2].status = "completed"
    /\ Len(ls.dispatched) = 2
    /\ ls.dispatched[1].seq = 1
    /\ ls.dispatched[2].seq = 3
    /\ ls.running = {3}
    /\ ls.pc = "call"

\* Notification n has been taken and, if its payload is a pending object,
\* process has been called for it.
Settled(n) ==
    /\ \E i \in DOMAIN ls.taken : ls.taken[i] = n
    /\ (ls.arrived[n].kind = "object" /\ ls.arrived[n].status = "pending") =>
          \E k \in DOMAIN ls.dispatched : ls.dispatched[k].seq = n

====
